---- MODULE Spec2Model ----
(***************************************************************************)
(* Sector storage and mesh generation of the voxel sandbox.                *)
(*                                                                         *)
(* The specifications share the variables below:                           *)
(*   SpecCoords   the coordinate primitives of sector storage (index,      *)
(*                coords, neighbor, and the index / block_mut of the older *)
(*                entity/sector.rs), applied to every in-range input;      *)
(*   Spec         a sector that is built with new / block_mut and then     *)
(*                meshed by gen_terrain;                                   *)
(*   SpecFixture  the test fixtures, built and meshed;                     *)
(*   SpecTex      tex_coord applied to the corners of every face;          *)
(*   SpecGen      the workers, the channel and the teardown of             *)
(*                GenController (SpecGenFair: with fair scheduling;        *)
(*                SpecGenPanic: with workers that may panic);              *)
(*   SpecManager  the same with finalize_sectors as the consumer           *)
(*                (SpecManagerFair: with fair scheduling);                 *)
(*   SpecMap      finalize_sectors and the World Map under any sequence    *)
(*                of messages;                                             *)
(*   SpecSpin     Camera::spin and Player::spin under any deltas;          *)
(*   SpecIter     SectorIter / SectorIterMut run over a sector.            *)
(***************************************************************************)
EXTENDS Integers, Sequences, FiniteSets, TLC

VARIABLES
    pc,         \* position of the driver: which call was made last
    arg,        \* SectorCoords handed to index / neighbor
    arg_idx,    \* usize handed to coords
    arg_side,   \* Side handed to neighbor
    idx,        \* usize returned by index
    out,        \* SectorCoords returned by coords
    nb,         \* Option<SectorCoords> returned by neighbor
    oob,        \* TRUE when blocks[idx] panicked (index out of bounds)
    blocks,     \* SectorData.blocks: array index -> Block
    tex_info,   \* OutputInfo of the texture atlas (width, height)
    geometry,   \* Option<PreGeometry> returned by gen_terrain
    tc_blk,     \* tex_coord: the blk argument
    tc_face,    \* tex_coord: the face argument
    tc_orig,    \* tex_coord: the orig argument
    tc_uv,      \* tex_coord: the returned pair, as exact fractions
    main_pc,    \* main thread: position with respect to the GenController
    rx_open,    \* TRUE while the Receiver of the channel is alive
    handles,    \* GenController.handles: the JoinHandles not joined yet
    chan,       \* messages sent and not received yet, oldest first
    w_pc,       \* per worker: position in worker_thread
    w_pos,      \* per worker: the loop variables (x, y, z), None after the loops
    w_msg,      \* per worker: the message built and not sent yet
    received,   \* history: the messages taken from the channel, in order
    w_failed,   \* history, per worker: sends that returned Err
    w_late,     \* history, per worker: sectors generated after the receiver closed
    world_map,  \* World Map: the entries (key, sector) of the Sector Manager
    cam_tilt,   \* Camera.rotation.tilt: << x (pitch), y (yaw) >>
    plr_tilt,   \* Player.rotation.tilt: << x (pitch), y (yaw) >>
    spun,       \* history: which of camera and player had spin called
    nan_fed,    \* history: which of them got a NaN pitch delta
    it_pc,      \* "none", "iterating" or "exhausted" (next() returned None)
    it_kind,    \* "iter" (SectorIter) or "iter_mut" (SectorIterMut)
    it_inner,   \* position of the slice iterator `inner` in the blocks array
    it_current, \* the field `current`
    it_items    \* what the last SECTOR_DIM calls of next() returned, in
                \* order: None or Some of [coords, slot], slot being the
                \* array slot the yielded reference refers to

vars == <<pc, arg, arg_idx, arg_side, idx, out, nb, oob, blocks, tex_info, geometry,
          tc_blk, tc_face, tc_orig, tc_uv,
          main_pc, rx_open, handles, chan, w_pc, w_pos, w_msg,
          received, w_failed, w_late, world_map,
          cam_tilt, plr_tilt, spun, nan_fed,
          it_pc, it_kind, it_inner, it_current, it_items>>

coordVars == <<arg, arg_idx, arg_side, idx, out, nb, oob>>
meshVars == <<blocks, tex_info, geometry>>
texVars == <<tc_blk, tc_face, tc_orig, tc_uv>>
ctlVars == <<main_pc, rx_open, handles>>
workerVars == <<w_pc, w_pos, w_msg, w_failed, w_late>>
genVars == <<ctlVars, workerVars, chan, received>>
mapVars == <<world_map>>
viewVars == <<cam_tilt, plr_tilt, spun, nan_fed>>
iterVars == <<it_pc, it_kind, it_inner, it_current, it_items>>

(***************************************************************************)
(* Option<T>                                                               *)
(***************************************************************************)
None == [tag |-> "None"]
Some(v) == [tag |-> "Some", val |-> v]
IsSome(o) == o.tag = "Some"
IsNone(o) == o.tag = "None"

(***************************************************************************)
(* side.rs, block.rs                                                       *)
(***************************************************************************)
Side == {"Front", "Back", "RightSide", "LeftSide", "Top", "Bottom"}

Block == {"Air", "TestBlock", "Stone", "Soil", "Grass"}

\* Block::texture_id hits unreachable!() for Air; the panic is the value
\* Unreachable, which is no BlockTextureID (u32).
Unreachable == -1

texture_id(self, side) ==
    CASE self = "Air" -> Unreachable
      [] self = "TestBlock" -> 16
      [] self = "Stone" -> 0
      [] self = "Soil" -> 1
      [] self = "Grass" /\ side = "Top" -> 2
      [] self = "Grass" /\ side = "Bottom" -> 1
      [] OTHER -> 3

\* is_transparent that answers false for every block.
is_transparent_Never(self) ==
    IF self = "Air" THEN FALSE ELSE FALSE

is_transparent(self) ==
    IF self = "Air" THEN TRUE ELSE FALSE

\* A default block other than Air.
BlockDefault_Stone == "Stone"

BlockDefault == "Air"

(***************************************************************************)
(* entity/sector/data.rs                                                   *)
(***************************************************************************)
SECTOR_DIM == 16

SECTOR_LEN == SECTOR_DIM * SECTOR_DIM * SECTOR_DIM

SECTOR_MIN == 0

SECTOR_MAX == SECTOR_DIM - 1

\* SectorCoords(x, y, z) is the tuple <<x, y, z>>.
SectorCoords(x, y, z) == <<x, y, z>>

\* neighbor whose Back and Front guards admit the boundary itself.
neighbor_InclusiveGuards(self, side) ==
    LET x == self[1]
        y == self[2]
        z == self[3]
    IN  CASE side = "Front" ->
               IF z <= SECTOR_MAX THEN Some(SectorCoords(x, y, z + 1)) ELSE None
          [] side = "Back" ->
               IF z >= SECTOR_MIN THEN Some(SectorCoords(x, y, z - 1)) ELSE None
          [] side = "RightSide" ->
               IF x < SECTOR_MAX THEN Some(SectorCoords(x + 1, y, z)) ELSE None
          [] side = "LeftSide" ->
               IF x > SECTOR_MIN THEN Some(SectorCoords(x - 1, y, z)) ELSE None
          [] side = "Top" ->
               IF y < SECTOR_MAX THEN Some(SectorCoords(x, y + 1, z)) ELSE None
          [] side = "Bottom" ->
               IF y > SECTOR_MIN THEN Some(SectorCoords(x, y - 1, z)) ELSE None

neighbor(self, side) ==
    LET x == self[1]
        y == self[2]
        z == self[3]
    IN  CASE side = "Front" ->
               IF z < SECTOR_MAX THEN Some(SectorCoords(x, y, z + 1)) ELSE None
          [] side = "Back" ->
               IF z > SECTOR_MIN THEN Some(SectorCoords(x, y, z - 1)) ELSE None
          [] side = "RightSide" ->
               IF x < SECTOR_MAX THEN Some(SectorCoords(x + 1, y, z)) ELSE None
          [] side = "LeftSide" ->
               IF x > SECTOR_MIN THEN Some(SectorCoords(x - 1, y, z)) ELSE None
          [] side = "Top" ->
               IF y < SECTOR_MAX THEN Some(SectorCoords(x, y + 1, z)) ELSE None
          [] side = "Bottom" ->
               IF y > SECTOR_MIN THEN Some(SectorCoords(x, y - 1, z)) ELSE None

\* index without the z term: the voxels of a column along z share a slot.
index_DropsZ(sector_coords) ==
    LET x == sector_coords[1]
        y == sector_coords[2]
    IN  x + y * SECTOR_DIM

index(sector_coords) ==
    LET x == sector_coords[1]
        y == sector_coords[2]
        z == sector_coords[3]
    IN  x + y * SECTOR_DIM + z * SECTOR_DIM * SECTOR_DIM

\* coords without the subtraction of the z part before the division for y.
coords_KeepsRemainder(i) ==
    LET z == i \div (SECTOR_DIM * SECTOR_DIM)
        y == i \div SECTOR_DIM
        x == i - y * SECTOR_DIM
    IN  SectorCoords(x, y, z)

coords(i) ==
    LET z == i \div (SECTOR_DIM * SECTOR_DIM)
        rem1 == i - z * SECTOR_DIM * SECTOR_DIM
        y == rem1 \div SECTOR_DIM
        rem2 == rem1 - y * SECTOR_DIM
        x == rem2
    IN  SectorCoords(x, y, z)

\* SectorData::new: every slot holds Block::default().
SectorDataNew == [i \in 0..(SECTOR_LEN - 1) |-> BlockDefault]

\* SectorData::block: the slot at index(sector_coords).
block(data, sector_coords) == data[index(sector_coords)]

\* SectorData::block_mut followed by the assignment *slot = blk.
block_mut(data, sector_coords, blk) ==
    [data EXCEPT ![index(sector_coords)] = blk]

(***************************************************************************)
(* entity/sector.rs: the older SectorData kept next to entity/sector/      *)
(***************************************************************************)
LegacyIndex(sector_coords) ==
    LET x == sector_coords[1]
        y == sector_coords[2]
        z == sector_coords[3]
    IN  x + y * SECTOR_LEN + z * SECTOR_LEN * SECTOR_LEN

\* &mut self.blocks[idx] on a [Block; SECTOR_LEN]: panics unless idx < SECTOR_LEN.
IndexPanics(i) == ~(i < SECTOR_LEN)

(***************************************************************************)
(* SectorIter / SectorIterMut: the k-th item is (coords(current), block)   *)
(* with current = k - 1, one item per slot of the blocks array.            *)
(***************************************************************************)
IterOrder == [k \in 1..SECTOR_LEN |-> k - 1]

IterCoords == [i \in 0..(SECTOR_LEN - 1) |-> coords(i)]

\* <&SectorData>::into_iter, <&mut SectorData>::into_iter with current: 1.
into_iter_CurrentOne == [inner |-> 0, current |-> 1]

\* <&SectorData>::into_iter, <&mut SectorData>::into_iter: the slice
\* iterator at the start of the blocks array and current: 0.
into_iter == [inner |-> 0, current |-> 0]

\* No iterator over a SectorData exists.
IterIdle ==
    /\ it_pc = "none"
    /\ it_kind = "iter"
    /\ it_inner = 0
    /\ it_current = 0
    /\ it_items = << >>

(***************************************************************************)
(* entity/sector/meshgen.rs                                                *)
(*                                                                         *)
(* f32 values are kept exact: positions are small integers, and a texture  *)
(* coordinate is the fraction <<numerator, denominator>>.                  *)
(***************************************************************************)
TILE_SIZE == 16

Face(side, positions, flip_u, flip_v, u_idx, v_idx) ==
    [side |-> side, positions |-> positions, flip_u |-> flip_u,
     flip_v |-> flip_v, u_idx |-> u_idx, v_idx |-> v_idx]

\* The table with the Top face textured along x and y, as Front and Back are.
FACES_TopAxesXY ==
    << Face("Front",     <<4, 5, 6, 7>>, FALSE, FALSE, 0, 1),
       Face("Back",      <<3, 2, 1, 0>>, TRUE,  FALSE, 0, 1),
       Face("RightSide", <<2, 6, 5, 1>>, TRUE,  FALSE, 2, 1),
       Face("LeftSide",  <<7, 3, 0, 4>>, FALSE, FALSE, 2, 1),
       Face("Top",       <<7, 6, 2, 3>>, FALSE, TRUE,  0, 1),
       Face("Bottom",    <<0, 1, 5, 4>>, FALSE, FALSE, 0, 2) >>

\* The table with the Back face listed in the order of the Front face.
FACES_BackReversed ==
    << Face("Front",     <<4, 5, 6, 7>>, FALSE, FALSE, 0, 1),
       Face("Back",      <<0, 1, 2, 3>>, TRUE,  FALSE, 0, 1),
       Face("RightSide", <<2, 6, 5, 1>>, TRUE,  FALSE, 2, 1),
       Face("LeftSide",  <<7, 3, 0, 4>>, FALSE, FALSE, 2, 1),
       Face("Top",       <<7, 6, 2, 3>>, FALSE, TRUE,  0, 2),
       Face("Bottom",    <<0, 1, 5, 4>>, FALSE, FALSE, 0, 2) >>

FACES ==
    << Face("Front",     <<4, 5, 6, 7>>, FALSE, FALSE, 0, 1),
       Face("Back",      <<3, 2, 1, 0>>, TRUE,  FALSE, 0, 1),
       Face("RightSide", <<2, 6, 5, 1>>, TRUE,  FALSE, 2, 1),
       Face("LeftSide",  <<7, 3, 0, 4>>, FALSE, FALSE, 2, 1),
       Face("Top",       <<7, 6, 2, 3>>, FALSE, TRUE,  0, 2),
       Face("Bottom",    <<0, 1, 5, 4>>, FALSE, FALSE, 0, 2) >>

\* POSITIONS[i] of the source (0-based) is POSITIONS[i + 1] here.
POSITIONS ==
    << <<0, 0, 0>>,
       <<1, 0, 0>>,
       <<1, 1, 0>>,
       <<0, 1, 0>>,
       <<0, 0, 1>>,
       <<1, 0, 1>>,
       <<1, 1, 1>>,
       <<0, 1, 1>> >>

translate3(orig, factors) ==
    << factors[1] + orig[1], factors[2] + orig[2], factors[3] + orig[3] >>

\* tex_coord with the half-pixel offset applied away from the tile centre.
tex_coord_OffsetOutward(info, blk, orig, face) ==
    LET unit == 16 * TILE_SIZE
        tiles_per_row == info.width \div TILE_SIZE
        tile_u == IF face.flip_u THEN unit - orig[face.u_idx + 1] * unit
                                 ELSE orig[face.u_idx + 1] * unit
        tile_v == IF face.flip_v THEN orig[face.v_idx + 1] * unit
                                 ELSE unit - orig[face.v_idx + 1] * unit
        offset == 1
        tile_u_adj == IF 2 * tile_u < unit THEN tile_u - offset ELSE tile_u + offset
        tile_v_adj == IF 2 * tile_v < unit THEN tile_v - offset ELSE tile_v + offset
        blk_id == texture_id(blk, face.side)
    IN  IF blk_id = Unreachable
        THEN << >>
        ELSE LET atlas_u == blk_id % tiles_per_row
                 atlas_v == blk_id \div tiles_per_row
             IN  << << (tile_u_adj + atlas_u * unit) * TILE_SIZE, unit * info.width >>,
                    << (tile_v_adj + atlas_v * unit) * TILE_SIZE, unit * info.height >> >>

\* tex_coord, with every quantity multiplied by 16 * TILE_SIZE so that the
\* half-pixel offset 1 / (16 * TILE_SIZE) is the integer 1. The result is
\* << u, v >>, or the empty tuple when texture_id panicked.
tex_coord(info, blk, orig, face) ==
    LET unit == 16 * TILE_SIZE
        tiles_per_row == info.width \div TILE_SIZE
        tile_u == IF face.flip_u THEN unit - orig[face.u_idx + 1] * unit
                                 ELSE orig[face.u_idx + 1] * unit
        tile_v == IF face.flip_v THEN orig[face.v_idx + 1] * unit
                                 ELSE unit - orig[face.v_idx + 1] * unit
        offset == 1
        tile_u_adj == IF 2 * tile_u < unit THEN tile_u + offset ELSE tile_u - offset
        tile_v_adj == IF 2 * tile_v < unit THEN tile_v + offset ELSE tile_v - offset
        blk_id == texture_id(blk, face.side)
    IN  IF blk_id = Unreachable
        THEN << >>
        ELSE LET atlas_u == blk_id % tiles_per_row
                 atlas_v == blk_id \div tiles_per_row
             IN  << << (tile_u_adj + atlas_u * unit) * TILE_SIZE, unit * info.width >>,
                    << (tile_v_adj + atlas_v * unit) * TILE_SIZE, unit * info.height >> >>

\* The padding test without the comparisons against SECTOR_MAX.
IsPadding_MinOnly(c) ==
    \/ c[1] = SECTOR_MIN
    \/ c[2] = SECTOR_MIN
    \/ c[3] = SECTOR_MIN

\* No padding test at all.
IsPadding_Never(c) == FALSE

\* The padding test of gen_terrain (first `continue`).
IsPadding(c) ==
    \/ c[1] = SECTOR_MIN
    \/ c[1] = SECTOR_MAX
    \/ c[2] = SECTOR_MIN
    \/ c[2] = SECTOR_MAX
    \/ c[3] = SECTOR_MIN
    \/ c[3] = SECTOR_MAX

\* The padding test for the item the iterator yields at each array index.
IterPadding == [i \in 0..(SECTOR_LEN - 1) |-> IsPadding(IterCoords[i])]

\* The outer loop without the `continue` for Air.
IsMeshed_AirIncluded(voxels, i) == ~IterPadding[i]

\* The voxels that pass both `continue`s of the outer loop.
IsMeshed(voxels, i) ==
    /\ ~IterPadding[i]
    /\ voxels[i] # "Air"

\* The occlusion test with the transparency check inverted.
IsOccluded_Inverted(voxels, c, f) ==
    LET adj == neighbor(c, f.side)
    IN  IF IsSome(adj)
        THEN is_transparent(block(voxels, adj.val))
        ELSE FALSE

\* The occlusion test that never skips a face.
IsOccluded_NoCulling(voxels, c, f) == FALSE

\* The occlusion test of the face loop: TRUE when the face is skipped.
IsOccluded(voxels, c, f) ==
    LET adj == neighbor(c, f.side)
    IN  IF IsSome(adj)
        THEN ~is_transparent(block(voxels, adj.val))
        ELSE FALSE

\* The (voxel index, face) pairs that reach the vertex loop, in loop order:
\* voxels in iteration order, the entries of FACES in table order.
DrawnFaces(voxels) ==
    LET Meshed(i) == IsMeshed(voxels, i)
        order == SelectSeq(IterOrder, Meshed)
        pairs == [k \in 1..(Len(order) * Len(FACES)) |->
                    << order[((k - 1) \div Len(FACES)) + 1],
                       FACES[((k - 1) % Len(FACES)) + 1] >>]
        Drawn(p) == ~IsOccluded(voxels, IterCoords[p[1]], p[2])
    IN  SelectSeq(pairs, Drawn)

\* The four VoxelVertex pushed for one drawn face.
FaceVertices(info, voxels, p) ==
    LET i == p[1]
        f == p[2]
        factors == IterCoords[i]
    IN  [j \in 1..4 |->
            [pos |-> translate3(POSITIONS[f.positions[j] + 1], factors),
             uv  |-> tex_coord(info, voxels[i], POSITIONS[f.positions[j] + 1], f)]]

\* The index pushes with every index one too high.
FaceIndices_OffByOne(current_index) ==
    << current_index + 1, current_index + 2, current_index + 3,
       current_index + 1, current_index + 3, current_index + 4 >>

\* The six indices pushed for the face drawn when the counter is current_index.
FaceIndices(current_index) ==
    << current_index, current_index + 1, current_index + 2,
       current_index, current_index + 2, current_index + 3 >>

\* The end of gen_terrain without the test of the counter.
Finish_AlwaysSome(current_index, vertices, indices) ==
    Some([vertices |-> vertices, indices |-> indices])

\* The end of gen_terrain: None when the counter never moved.
Finish(current_index, vertices, indices) ==
    IF current_index = 0
    THEN None
    ELSE Some([vertices |-> vertices, indices |-> indices])

Panic == [tag |-> "Panic"]

\* current_index is 4 * (faces drawn so far); it stays far below 2^32
\* (at most 6 * (SECTOR_DIM - 2)^3 faces), so the u32 never wraps.
gen_terrain(info, voxels) ==
    LET drawn == DrawnFaces(voxels)
        vertices == [n \in 1..(4 * Len(drawn)) |->
                        FaceVertices(info, voxels, drawn[((n - 1) \div 4) + 1])[((n - 1) % 4) + 1]]
        indices == [n \in 1..(6 * Len(drawn)) |->
                        FaceIndices(4 * ((n - 1) \div 6))[((n - 1) % 6) + 1]]
        current_index == 4 * Len(drawn)
    IN  IF \E n \in 1..Len(vertices) : Len(vertices[n].uv) = 0
        THEN Panic
        ELSE Finish(current_index, vertices, indices)

(***************************************************************************)
(* Inputs                                                                  *)
(***************************************************************************)
\* Every SectorCoords whose components lie in [SECTOR_MIN, SECTOR_MAX].
AllCoords == (SECTOR_MIN..SECTOR_MAX) \X (SECTOR_MIN..SECTOR_MAX) \X (SECTOR_MIN..SECTOR_MAX)

\* The most voxels a sector under test holds that are not Air.
MaxSolid == 2

\* The coordinates block_mut is called with: a voxel next to the low corner,
\* and along each axis through it the padding voxels at both ends and the
\* voxels next to them.
ProbeAxis == {SECTOR_MIN, SECTOR_MIN + 1, SECTOR_MIN + 2, SECTOR_MAX - 1, SECTOR_MAX}

ProbeCoords ==
    {c \in ProbeAxis \X ProbeAxis \X ProbeAxis :
        Cardinality({k \in 1..3 : c[k] # SECTOR_MIN + 1}) <= 1}

\* The blocks block_mut writes.
ProbeBlocks == {"Stone", "Grass"}

\* The texture atlas handed to gen_terrain.
TexInfos == {[width |-> 256, height |-> 256]}

Unset == << >>

\* No call of tex_coord on its own is under way.
TexIdle ==
    /\ tc_blk = "Stone"
    /\ tc_face = FACES[1]
    /\ tc_orig = POSITIONS[1]
    /\ tc_uv = << >>

(***************************************************************************)
(* entity/sector/generation.rs                                             *)
(***************************************************************************)
N_WORKERS == 1

SectorIndex(x, y, z) == <<x, y, z>>

\* The loops of worker_thread run x and z over -10..11; the model runs them
\* over -ScanReach .. ScanReach (both ends included), and y over -1..0 as
\* the code does.
ScanReach == 1

\* The first world position of the loops of worker_thread.
ScanFirst == SectorIndex(-ScanReach, -1, -ScanReach)

\* The loops with z outermost and x innermost.
ScanNext_ZOuter(c) ==
    IF c[1] + 1 < ScanReach + 1 THEN Some(SectorIndex(c[1] + 1, c[2], c[3]))
    ELSE IF c[2] + 1 < 0 THEN Some(SectorIndex(-ScanReach, c[2] + 1, c[3]))
    ELSE IF c[3] + 1 < ScanReach + 1 THEN Some(SectorIndex(-ScanReach, -1, c[3] + 1))
    ELSE None

\* The world position after c in the loops of worker_thread (x outermost,
\* then y, z innermost); None when the loops are over.
ScanNext(c) ==
    IF c[3] + 1 < ScanReach + 1 THEN Some(SectorIndex(c[1], c[2], c[3] + 1))
    ELSE IF c[2] + 1 < 0 THEN Some(SectorIndex(c[1], c[2] + 1, -ScanReach))
    ELSE IF c[1] + 1 < ScanReach + 1 THEN Some(SectorIndex(c[1] + 1, -1, -ScanReach))
    ELSE None

\* Every world position the loops of worker_thread visit.
ScanCoords == (-ScanReach..ScanReach) \X (-1..-1) \X (-ScanReach..ScanReach)

\* The blocks superflat_sector writes when world_pos.1 = -1.
SuperflatGround ==
    [i \in 0..(SECTOR_LEN - 1) |->
        LET c == coords(i)
        IN  IF c[2] < SECTOR_MAX - 1 THEN "Soil"
            ELSE IF c[2] = SECTOR_MAX - 1
                 THEN IF c[1] % 4 = 0 /\ c[3] % 4 = 0 THEN "TestBlock" ELSE "Grass"
            ELSE "Air"]

superflat_sector(world_pos) ==
    IF world_pos[2] # -1 THEN SectorDataNew ELSE SuperflatGround

copy_tex_info(info) == [width |-> info.width, height |-> info.height]

\* The texture atlas of the program, and the mesh of the ground sector for it.
LoadedTexInfo == CHOOSE i \in TexInfos : TRUE
GroundGeometry == gen_terrain(copy_tex_info(LoadedTexInfo), SuperflatGround)

\* The mesh of the sector superflat_sector returns away from y = -1.
AirGeometry == gen_terrain(copy_tex_info(LoadedTexInfo), SectorDataNew)

\* meshgen::gen_terrain(&tex_info, &sector_data) as worker_thread calls it.
\* superflat_sector returns one of two sectors, so their meshes are taken
\* from GroundGeometry and AirGeometry instead of being computed again.
WorkerGeometry(info, sector_data) ==
    IF info = copy_tex_info(LoadedTexInfo) /\ sector_data = SuperflatGround
    THEN GroundGeometry
    ELSE IF info = copy_tex_info(LoadedTexInfo) /\ sector_data = SectorDataNew
    THEN AirGeometry
    ELSE gen_terrain(info, sector_data)

\* The Message worker_thread builds for a world position. The channel of the
\* model carries world_pos and the worker that sent it (`from`, which the
\* Message of the code does not hold); the other two fields are functions of
\* world_pos and are computed where they are read.
Message(info, world_pos) ==
    [world_pos |-> world_pos,
     sector_data |-> superflat_sector(world_pos),
     pre_geometry |-> WorkerGeometry(info, superflat_sector(world_pos))]

Workers == 1..N_WORKERS

\* spawn_threads(tx, tex_info, n): one handle per worker, in spawn order.
spawn_threads(n) == [i \in 1..n |-> i]

(***************************************************************************)
(* camera.rs, player.rs: f32 angles and spin                               *)
(*                                                                         *)
(* An f32 is a record: a finite value v (an angle in units of pi/4, so     *)
(* that FRAC_PI_2 and PI are whole numbers), an infinity with sign v, or   *)
(* NaN.  Finite sums beyond MaxFinite overflow to an infinity, as f32      *)
(* sums beyond f32::MAX do.                                                *)
(***************************************************************************)
MaxFinite == 12

Fin(v) == [k |-> "fin", v |-> v]
PosInf == [k |-> "inf", v |-> 1]
NegInf == [k |-> "inf", v |-> -1]
NaN == [k |-> "nan", v |-> 0]

\* Position of a non-NaN value on the extended real line.
FRank(a) == IF a.k = "inf" THEN a.v * (MaxFinite + 1) ELSE a.v

\* a + b of f32
FAdd(a, b) ==
    IF a.k = "nan" \/ b.k = "nan" THEN NaN
    ELSE IF a.k = "inf" /\ b.k = "inf"
         THEN IF a.v = b.v THEN a ELSE NaN
    ELSE IF a.k = "inf" THEN a
    ELSE IF b.k = "inf" THEN b
    ELSE IF a.v + b.v > MaxFinite THEN PosInf
    ELSE IF a.v + b.v < -MaxFinite THEN NegInf
    ELSE Fin(a.v + b.v)

\* a < b, a > b, a >= b of f32: false as soon as one side is NaN
FLt(a, b) == a.k # "nan" /\ b.k # "nan" /\ FRank(a) < FRank(b)
FGt(a, b) == FLt(b, a)
FGe(a, b) == a.k # "nan" /\ b.k # "nan" /\ FRank(a) >= FRank(b)

\* -a of f32
FNeg(a) == [k |-> a.k, v |-> -a.v]

FRAC_PI_2 == Fin(2)
PI == Fin(4)
TWO_PI == Fin(8)

\* Camera::spin / Player::spin: tilt += delta, then the pitch is clamped to
\* [-FRAC_PI_2, FRAC_PI_2] and the yaw wrapped once by 2 PI.
spin(tilt, delta) ==
    LET x == FAdd(tilt[1], delta[1])
        y == FAdd(tilt[2], delta[2])
    IN  << IF FLt(x, FNeg(FRAC_PI_2)) THEN FNeg(FRAC_PI_2)
           ELSE IF FGt(x, FRAC_PI_2) THEN FRAC_PI_2
           ELSE x,
           IF FLt(y, Fin(0)) THEN FAdd(y, TWO_PI)
           ELSE IF FGe(y, TWO_PI) THEN FAdd(y, FNeg(TWO_PI))
           ELSE y >>

\* Camera::at_origin(), Player::at_origin(): Rotation::new((0., 0.))
AtOriginTilt == << Fin(0), Fin(0) >>

\* The camera and the player are as constructed and were never spun.
ViewIdle ==
    /\ cam_tilt = AtOriginTilt
    /\ plr_tilt = AtOriginTilt
    /\ spun = {}
    /\ nan_fed = {}

\* No GenController and no Sector Manager exist.
GenIdle ==
    /\ main_pc = "none"
    /\ rx_open = FALSE
    /\ handles = << >>
    /\ chan = << >>
    /\ w_pc = [w \in Workers |-> "done"]
    /\ w_pos = [w \in Workers |-> None]
    /\ w_msg = [w \in Workers |-> None]
    /\ received = << >>
    /\ w_failed = [w \in Workers |-> 0]
    /\ w_late = [w \in Workers |-> 0]
    /\ world_map = {}
    /\ ViewIdle
    /\ IterIdle

(***************************************************************************)
(* SpecCoords: the coordinate primitives on every in-range input           *)
(***************************************************************************)
InitCoords ==
    /\ \/ /\ pc = "call"
          /\ arg \in AllCoords
          /\ arg_idx = 0
       \/ /\ pc = "call_idx"
          /\ arg = SectorCoords(0, 0, 0)
          /\ arg_idx \in 0..(SECTOR_LEN - 1)
    /\ arg_side = "Front"
    /\ idx = 0
    /\ out = SectorCoords(0, 0, 0)
    /\ nb = None
    /\ oob = FALSE
    /\ blocks = Unset
    /\ tex_info = Unset
    /\ geometry = None
    /\ TexIdle
    /\ GenIdle

\* SectorData::index(arg)
CallIndex ==
    /\ pc = "call"
    /\ idx' = index(arg)
    /\ pc' = "index"
    /\ UNCHANGED <<texVars, genVars, mapVars, viewVars, iterVars, arg, arg_idx, arg_side, out, nb, oob, meshVars>>

\* SectorData::coords applied to the index just computed
CallCoordsOfIndex ==
    /\ pc = "index"
    /\ out' = coords(idx)
    /\ pc' = "index_coords"
    /\ UNCHANGED <<texVars, genVars, mapVars, viewVars, iterVars, arg, arg_idx, arg_side, idx, nb, oob, meshVars>>

\* SectorData::block / block_mut: the array access at the index just computed
CallBlock ==
    /\ pc = "index"
    /\ oob' = IndexPanics(idx)
    /\ pc' = "block"
    /\ UNCHANGED <<texVars, genVars, mapVars, viewVars, iterVars, arg, arg_idx, arg_side, idx, out, nb, meshVars>>

\* SectorData::coords(arg_idx)
CallCoords ==
    /\ pc = "call_idx"
    /\ out' = coords(arg_idx)
    /\ pc' = "coords"
    /\ UNCHANGED <<texVars, genVars, mapVars, viewVars, iterVars, arg, arg_idx, arg_side, idx, nb, oob, meshVars>>

\* SectorData::index applied to the coordinates just computed
CallIndexOfCoords ==
    /\ pc = "coords"
    /\ idx' = index(out)
    /\ pc' = "coords_index"
    /\ UNCHANGED <<texVars, genVars, mapVars, viewVars, iterVars, arg, arg_idx, arg_side, out, nb, oob, meshVars>>

\* arg.neighbor(side)
CallNeighbor ==
    /\ pc = "call"
    /\ \E side \in Side :
        /\ arg_side' = side
        /\ nb' = neighbor(arg, side)
    /\ pc' = "neighbor"
    /\ UNCHANGED <<texVars, genVars, mapVars, viewVars, iterVars, arg, arg_idx, idx, out, oob, meshVars>>

\* entity/sector.rs: SectorData::index(arg)
CallLegacyIndex ==
    /\ pc = "call"
    /\ idx' = LegacyIndex(arg)
    /\ pc' = "legacy_index"
    /\ UNCHANGED <<texVars, genVars, mapVars, viewVars, iterVars, arg, arg_idx, arg_side, out, nb, oob, meshVars>>

\* entity/sector.rs: SectorData::block_mut, the array access at that index
CallLegacyBlockMut ==
    /\ pc = "legacy_index"
    /\ oob' = IndexPanics(idx)
    /\ pc' = "legacy_block_mut"
    /\ UNCHANGED <<texVars, genVars, mapVars, viewVars, iterVars, arg, arg_idx, arg_side, idx, out, nb, meshVars>>

NextCoords ==
    \/ CallIndex
    \/ CallCoordsOfIndex
    \/ CallBlock
    \/ CallCoords
    \/ CallIndexOfCoords
    \/ CallNeighbor
    \/ CallLegacyIndex
    \/ CallLegacyBlockMut

SpecCoords == InitCoords /\ [][NextCoords]_vars

(***************************************************************************)
(* Spec: a sector is created, written through block_mut and meshed         *)
(***************************************************************************)
Init ==
    /\ pc = "start"
    /\ arg = SectorCoords(0, 0, 0)
    /\ arg_idx = 0
    /\ arg_side = "Front"
    /\ idx = 0
    /\ out = SectorCoords(0, 0, 0)
    /\ nb = None
    /\ oob = FALSE
    /\ blocks = Unset
    /\ tex_info \in TexInfos
    /\ geometry = None
    /\ TexIdle
    /\ GenIdle

\* SectorData::new()
New ==
    /\ pc = "start"
    /\ blocks' = SectorDataNew
    /\ pc' = "new"
    /\ UNCHANGED <<texVars, genVars, mapVars, viewVars, iterVars, coordVars, tex_info, geometry>>

\* *data.block_mut(c) = blk, the sector being filled in array order as the
\* generation routines fill it: c lies behind every voxel written so far.
BlockMut ==
    /\ pc \in {"new", "data"}
    /\ \E c \in ProbeCoords, blk \in ProbeBlocks :
        /\ \A p \in ProbeCoords : block(blocks, p) # "Air" => index(p) < index(c)
        /\ Cardinality({p \in ProbeCoords : block(blocks, p) # "Air"}) < MaxSolid
        /\ blocks' = block_mut(blocks, c, blk)
    /\ pc' = "data"
    /\ UNCHANGED <<texVars, genVars, mapVars, viewVars, iterVars, coordVars, tex_info, geometry>>

\* meshgen::gen_terrain(&tex_info, &data)
GenTerrain ==
    /\ pc \in {"new", "data"}
    /\ geometry' = gen_terrain(tex_info, blocks)
    /\ pc' = "meshed"
    /\ UNCHANGED <<texVars, genVars, mapVars, viewVars, iterVars, coordVars, blocks, tex_info>>

Next ==
    \/ New
    \/ BlockMut
    \/ GenTerrain

Spec == Init /\ [][Next]_vars

(***************************************************************************)
(* Properties of the coordinate primitives (SpecCoords)                    *)
(***************************************************************************)

\* C1: coords(index(c)) = c for every in-range coordinate c, and index and
\* coords are mutually inverse: index(c) lies in [0, SECTOR_LEN), coords(i)
\* lies in the cube for every i in [0, SECTOR_LEN), and index(coords(i)) = i.
C1_IndexCoordsRoundTrip ==
    /\ pc = "index" => idx \in 0..(SECTOR_LEN - 1)
    /\ pc = "index_coords" => out = arg
    /\ pc = "coords" => out \in AllCoords
    /\ pc = "coords_index" => idx = arg_idx

C1_Witness ==
    /\ pc = "index_coords"
    /\ arg = SectorCoords(3, 7, 11)
    /\ idx = 3 + 7 * 16 + 11 * 256

\* C2: every SectorData::index of the repository (entity/sector/data.rs and
\* entity/sector.rs) returns x + y*DIM + z*DIM*DIM, which is below
\* SECTOR_LEN, and the array access of block / block_mut never goes out of
\* bounds.
C2_EveryIndexInBounds ==
    /\ pc \in {"index", "legacy_index"} =>
          /\ idx = arg[1] + arg[2] * SECTOR_DIM + arg[3] * SECTOR_DIM * SECTOR_DIM
          /\ idx < SECTOR_LEN
    /\ pc \in {"block", "legacy_block_mut"} => ~oob

\* The unit step of a Side.
SideUnit(side) ==
    CASE side = "Front"     -> << 0,  0,  1>>
      [] side = "Back"      -> << 0,  0, -1>>
      [] side = "RightSide" -> << 1,  0,  0>>
      [] side = "LeftSide"  -> <<-1,  0,  0>>
      [] side = "Top"       -> << 0,  1,  0>>
      [] side = "Bottom"    -> << 0, -1,  0>>

Step(c, side) ==
    << c[1] + SideUnit(side)[1], c[2] + SideUnit(side)[2], c[3] + SideUnit(side)[3] >>

\* C3: neighbor(c, s) is Some(c + unit(s)) when c + unit(s) is inside the
\* cube and None otherwise; a returned coordinate is never outside the cube
\* (in particular no component is below zero).
C3_NeighborIsUnitStep ==
    pc = "neighbor" =>
        /\ Step(arg, arg_side) \in AllCoords =>
              /\ IsSome(nb)
              /\ nb.val = Step(arg, arg_side)
        /\ Step(arg, arg_side) \notin AllCoords => IsNone(nb)
        /\ IsSome(nb) => nb.val \in AllCoords

C3_Witness ==
    \/ /\ pc = "neighbor"
       /\ arg = SectorCoords(5, 0, 9)
       /\ arg_side = "Bottom"
       /\ IsNone(nb)
    \/ /\ pc = "neighbor"
       /\ arg = SectorCoords(5, 0, 9)
       /\ arg_side = "Back"
       /\ IsSome(nb)

(***************************************************************************)
(* Properties of sector storage and mesh generation (Spec)                 *)
(***************************************************************************)

\* The array slots block_mut is called for.
ProbeSlots == {index(c) : c \in ProbeCoords}

\* Every slot outside ProbeSlots still holds the Air that new() put there.
OnlyProbeSlotsWritten ==
    pc \in {"new", "data", "meshed"} =>
        \A i \in (0..(SECTOR_LEN - 1)) \ ProbeSlots : blocks[i] = "Air"

\* The array slots that hold a block other than Air (by OnlyProbeSlotsWritten
\* they are all among ProbeSlots).
SolidSlots == {i \in ProbeSlots : blocks[i] # "Air"}

\* All components in [1, SECTOR_DIM - 2].
Interior(c) == \A k \in 1..3 : c[k] \in 1..(SECTOR_DIM - 2)

\* The entry of FACES for a side.
FaceOf(side) == CHOOSE k \in 1..Len(FACES) : FACES[k].side = side

\* The four corner positions of the face of voxel v on a side, in table order.
FaceQuad(v, side) ==
    [j \in 1..4 |-> translate3(POSITIONS[FACES[FaceOf(side)].positions[j] + 1], v)]

NumFaces(g) == Len(g.val.vertices) \div 4

\* The positions of the four vertices of the k-th face of a geometry.
QuadAt(g, k) == [j \in 1..4 |-> g.val.vertices[4 * (k - 1) + j].pos]

\* The geometry holds the face of voxel v on a side.
HasFace(g, v, side) ==
    /\ IsSome(g)
    /\ \E k \in 1..NumFaces(g) : QuadAt(g, k) = FaceQuad(v, side)

\* C4: SectorData::new() returns a sector whose every coordinate of the cube
\* holds Block::Air.
C4_NewIsAllAir ==
    pc = "new" =>
        /\ DOMAIN blocks = 0..(SECTOR_DIM * SECTOR_DIM * SECTOR_DIM - 1)
        /\ \A c \in AllCoords : block(blocks, c) = "Air"

C4_Witness ==
    /\ pc = "new"
    /\ block(blocks, SectorCoords(SECTOR_MAX, SECTOR_MAX, SECTOR_MAX)) = "Air"

\* C5: for every voxel gen_terrain meshes (not Air, not on the outer shell)
\* and every side, the face on that side is in the geometry if and only if
\* the block at the neighbouring coordinate is Air.
C5_FaceIffNeighborTransparent ==
    pc = "meshed" =>
        \A i \in SolidSlots :
            Interior(coords(i)) =>
                \A side \in Side :
                    HasFace(geometry, coords(i), side)
                        <=> block(blocks, Step(coords(i), side)) = "Air"

C5_Witness ==
    /\ pc = "meshed"
    /\ block(blocks, SectorCoords(1, 1, 1)) = "Stone"
    /\ block(blocks, SectorCoords(1, 2, 1)) = "Grass"
    /\ HasFace(geometry, SectorCoords(1, 1, 1), "Front")
    /\ ~HasFace(geometry, SectorCoords(1, 1, 1), "Top")

\* C6: no face of the geometry belongs to a voxel of the outer shell: every
\* group of four vertices is the face of some voxel, and every voxel it is a
\* face of has all components in [1, SECTOR_DIM - 2].
C6_NoFaceOnOuterShell ==
    (pc = "meshed" /\ IsSome(geometry)) =>
        /\ Len(geometry.val.vertices) % 4 = 0
        /\ \A k \in 1..NumFaces(geometry) :
              LET quad == QuadAt(geometry, k)
                  Origin(f) == << quad[1][1] - POSITIONS[f.positions[1] + 1][1],
                                  quad[1][2] - POSITIONS[f.positions[1] + 1][2],
                                  quad[1][3] - POSITIONS[f.positions[1] + 1][3] >>
                  Owns(f) == quad = FaceQuad(Origin(f), f.side)
              IN  /\ \E n \in 1..Len(FACES) : Owns(FACES[n])
                  /\ \A n \in 1..Len(FACES) : Owns(FACES[n]) => Interior(Origin(FACES[n]))

C6_Witness ==
    /\ pc = "meshed"
    /\ IsSome(geometry)
    /\ block(blocks, SectorCoords(SECTOR_MAX, 1, 1)) # "Air"
    /\ block(blocks, SectorCoords(SECTOR_MAX - 1, 1, 1)) # "Air"

\* C7: a sector that is all Air except one voxel at an interior coordinate
\* meshes to exactly 6 faces: 24 vertices and 36 indices.
C7_SingleVoxelSixFaces ==
    (pc = "meshed" /\ Cardinality(SolidSlots) = 1) =>
        \A i \in SolidSlots :
            Interior(coords(i)) =>
                /\ IsSome(geometry)
                /\ Len(geometry.val.vertices) = 24
                /\ Len(geometry.val.indices) = 36

C7_Witness ==
    /\ pc = "meshed"
    /\ SolidSlots = {index(SectorCoords(1, 2, 1))}
    /\ IsSome(geometry)

\* C8: a sector that is all Air except two voxels at interior coordinates one
\* step apart along an axis meshes to 10 faces (40 vertices, 60 indices):
\* neither voxel's face on the shared side, every other face of both.
C8_SharedFaceCulled ==
    pc = "meshed" =>
        \A i \in SolidSlots, side \in Side :
            LET a == coords(i)
                b == Step(a, side)
            IN  (Interior(a) /\ Interior(b) /\ SolidSlots = {i, index(b)}) =>
                    /\ IsSome(geometry)
                    /\ ~HasFace(geometry, a, side)
                    /\ \A t \in Side \ {side} : HasFace(geometry, a, t)
                    /\ \A t \in Side : Step(b, t) # a => HasFace(geometry, b, t)
                    /\ \A t \in Side : Step(b, t) = a => ~HasFace(geometry, b, t)
                    /\ Len(geometry.val.vertices) = 40
                    /\ Len(geometry.val.indices) = 60

C8_Witness ==
    /\ pc = "meshed"
    /\ SolidSlots = {index(SectorCoords(1, 1, 1)), index(SectorCoords(1, 1, 2))}
    /\ IsSome(geometry)

\* C9: gen_terrain of a sector in which every voxel is Air returns None.
C9_AllAirNoGeometry ==
    (pc = "meshed" /\ SolidSlots = {} /\ \A c \in AllCoords : block(blocks, c) = "Air") =>
        IsNone(geometry)

C9_Witness ==
    /\ pc = "meshed"
    /\ SolidSlots = {}

\* The (voxel, side) pairs whose face is visible: the voxel is not Air and not
\* on the outer shell, and the block next to it on that side is Air.
VisiblePairs ==
    {p \in SolidSlots \X Side :
        /\ Interior(coords(p[1]))
        /\ block(blocks, Step(coords(p[1]), p[2])) = "Air"}

\* C10: gen_terrain returns None if and only if no face is emitted, and a
\* returned PreGeometry never has an empty vertex or index sequence.
C10_NoneIffNoFaces ==
    pc = "meshed" =>
        /\ geometry.tag \in {"None", "Some"}
        /\ IsNone(geometry) <=> VisiblePairs = {}
        /\ IsSome(geometry) =>
              /\ Len(geometry.val.vertices) > 0
              /\ Len(geometry.val.indices) > 0

C10_Witness ==
    /\ pc = "meshed"
    /\ IsNone(geometry)
    /\ SolidSlots # {}

\* C11: a returned PreGeometry with F faces has 4F vertices and 6F indices,
\* the k-th face (k from 0) contributes the indices 4k, 4k+1, 4k+2, 4k, 4k+2,
\* 4k+3 in that order, and every index is below the number of vertices.
C11_IndexLayout ==
    (pc = "meshed" /\ IsSome(geometry)) =>
        LET F == Cardinality(VisiblePairs)
            vertices == geometry.val.vertices
            indices == geometry.val.indices
        IN  /\ Len(vertices) = 4 * F
            /\ Len(indices) = 6 * F
            /\ \A k \in 0..(F - 1) :
                  /\ indices[6 * k + 1] = 4 * k
                  /\ indices[6 * k + 2] = 4 * k + 1
                  /\ indices[6 * k + 3] = 4 * k + 2
                  /\ indices[6 * k + 4] = 4 * k
                  /\ indices[6 * k + 5] = 4 * k + 2
                  /\ indices[6 * k + 6] = 4 * k + 3
            /\ \A n \in 1..Len(indices) : indices[n] \in 0..(Len(vertices) - 1)

C11_Witness ==
    /\ pc = "meshed"
    /\ IsSome(geometry)
    /\ Len(geometry.val.vertices) = 40
    /\ geometry.val.indices[60] = 39

(***************************************************************************)
(* SpecFixture: the test fixtures are built and meshed                     *)
(***************************************************************************)
\* entity/sector.rs: the successor of c in the loops of SectorData::test
\* (x outermost, y below SECTOR_DIM / 2, z innermost); None after the last.
HalfStoneNext(c) ==
    IF c[3] + 1 < SECTOR_DIM THEN Some(SectorCoords(c[1], c[2], c[3] + 1))
    ELSE IF c[2] + 1 < SECTOR_DIM \div 2 THEN Some(SectorCoords(c[1], c[2] + 1, 0))
    ELSE IF c[1] + 1 < SECTOR_DIM THEN Some(SectorCoords(c[1] + 1, 0, 0))
    ELSE None

\* The innermost loop from c on: block_mut for c and every later z of its row.
RECURSIVE HalfStoneRow(_, _)
HalfStoneRow(data, c) ==
    LET written == block_mut(data, c, "Stone")
    IN  IF c[3] + 1 < SECTOR_DIM
        THEN HalfStoneRow(written, SectorCoords(c[1], c[2], c[3] + 1))
        ELSE written

\* entity/sector/data.rs: the sector SectorData::test() returns.
SectorDataTest ==
    [i \in 0..(SECTOR_LEN - 1) |->
        LET c == coords(i)
        IN  IF c[2] < SECTOR_DIM \div 2 THEN "Stone"
            ELSE IF c[2] = SECTOR_DIM \div 2 THEN "Soil"
            ELSE IF c[2] = SECTOR_DIM - 2
                 THEN IF c[1] = 0 /\ c[3] = 0 THEN "TestBlock" ELSE "Grass"
            ELSE BlockDefault]

\* One of the fixtures is about to be built: the half-stone loop written
\* through block_mut of data.rs ("half"), the same loop with the block_mut of
\* entity/sector.rs ("legacy"), or SectorData::test() of data.rs ("test").
InitFixture ==
    /\ pc \in {"half_start", "legacy_start", "test_start"}
    /\ arg = SectorCoords(0, 0, 0)
    /\ arg_idx = 0
    /\ arg_side = "Front"
    /\ idx = 0
    /\ out = SectorCoords(0, 0, 0)
    /\ nb = None
    /\ oob = FALSE
    /\ blocks = Unset
    /\ tex_info \in TexInfos
    /\ geometry = None
    /\ TexIdle
    /\ GenIdle

\* let mut data = SectorData::new();
FixtureNew ==
    /\ pc \in {"half_start", "legacy_start"}
    /\ blocks' = SectorDataNew
    /\ pc' = IF pc = "half_start" THEN "half_fill" ELSE "legacy_fill"
    /\ UNCHANGED <<texVars, genVars, mapVars, viewVars, iterVars, coordVars, tex_info, geometry>>

\* *data.block_mut(SectorCoords(x, y, z)) = Block::Stone for one (x, y): the
\* whole innermost loop, arg being its first coordinate and then its last.
HalfStoneWrite ==
    /\ pc = "half_fill"
    /\ blocks' = HalfStoneRow(blocks, arg)
    /\ LET last == SectorCoords(arg[1], arg[2], SECTOR_DIM - 1)
       IN  IF IsSome(HalfStoneNext(last))
           THEN arg' = HalfStoneNext(last).val /\ pc' = "half_fill"
           ELSE arg' = last /\ pc' = "half_data"
    /\ UNCHANGED <<texVars, genVars, mapVars, viewVars, iterVars, arg_idx, arg_side, idx, out, nb, oob, tex_info, geometry>>

\* The same pass with block_mut of entity/sector.rs: the slot comes from its
\* index, and indexing the array outside 0..SECTOR_LEN-1 panics.
LegacyHalfStoneWrite ==
    /\ pc = "legacy_fill"
    /\ idx' = LegacyIndex(arg)
    /\ IF IndexPanics(LegacyIndex(arg))
       THEN /\ oob' = TRUE
            /\ pc' = "panicked"
            /\ UNCHANGED <<arg, blocks>>
       ELSE /\ oob' = FALSE
            /\ blocks' = [blocks EXCEPT ![LegacyIndex(arg)] = "Stone"]
            /\ IF IsSome(HalfStoneNext(arg))
               THEN arg' = HalfStoneNext(arg).val /\ pc' = "legacy_fill"
               ELSE arg' = arg /\ pc' = "legacy_data"
    /\ UNCHANGED <<texVars, genVars, mapVars, viewVars, iterVars, arg_idx, arg_side, out, nb, tex_info, geometry>>

\* SectorData::test() of data.rs
DataTest ==
    /\ pc = "test_start"
    /\ blocks' = SectorDataTest
    /\ pc' = "test_data"
    /\ UNCHANGED <<texVars, genVars, mapVars, viewVars, iterVars, coordVars, tex_info, geometry>>

\* meshgen::gen_terrain(&tex_info, &data) on the finished fixture
FixtureGenTerrain ==
    /\ pc \in {"half_data", "legacy_data", "test_data"}
    /\ geometry' = gen_terrain(tex_info, blocks)
    /\ pc' = CASE pc = "half_data" -> "half_meshed"
               [] pc = "legacy_data" -> "legacy_meshed"
               [] pc = "test_data" -> "test_meshed"
    /\ UNCHANGED <<texVars, genVars, mapVars, viewVars, iterVars, coordVars, blocks, tex_info>>

NextFixture ==
    \/ FixtureNew
    \/ HalfStoneWrite
    \/ LegacyHalfStoneWrite
    \/ DataTest
    \/ FixtureGenTerrain

SpecFixture == InitFixture /\ [][NextFixture]_vars

\* The voxels of the half-stone fixture that gen_terrain visits.
BandVoxels == {c \in AllCoords : Interior(c) /\ c[2] < SECTOR_DIM \div 2}

\* The faces of the horizontal plane between y = 7 and y = 8.
PlaneFaces == {p \in BandVoxels \X {"Top"} : p[1][2] = SECTOR_DIM \div 2 - 1}

\* The faces of the four vertical walls of the band, towards the shell.
WallFaces ==
    {p \in BandVoxels \X {"LeftSide", "RightSide", "Front", "Back"} :
        ~Interior(Step(p[1], p[2]))}

\* The quads of a geometry, as a set.
Quads(g) == {QuadAt(g, k) : k \in 1..NumFaces(g)}

DataTestMesh ==
    pc = "test_meshed" =>
        /\ IsSome(geometry)
        /\ NumFaces(geometry) = 3 * (SECTOR_DIM - 2) * (SECTOR_DIM - 2)
        /\ \E c \in AllCoords : c[2] >= SECTOR_DIM \div 2 /\ block(blocks, c) # "Air"

(***************************************************************************)
(* SpecTex: tex_coord applied to the corners of every face                 *)
(***************************************************************************)
\* The most tiles along one edge of the atlases tried besides the real one.
MaxAtlasTiles == 5

\* Atlas edge lengths in pixels: the multiples of TILE_SIZE up to the bound,
\* and the edge of the atlas the program loads.
AtlasEdges ==
    {TILE_SIZE * n : n \in 1..MaxAtlasTiles}
        \cup {i.width : i \in TexInfos} \cup {i.height : i \in TexInfos}

\* gen_terrain calls tex_coord with the block of a voxel that is not Air, an
\* entry of FACES and one of the four POSITIONS of that entry.
InitTex ==
    /\ pc = "tex_call"
    /\ arg = SectorCoords(0, 0, 0)
    /\ arg_idx = 0
    /\ arg_side = "Front"
    /\ idx = 0
    /\ out = SectorCoords(0, 0, 0)
    /\ nb = None
    /\ oob = FALSE
    /\ blocks = Unset
    /\ geometry = None
    /\ tex_info \in [width : AtlasEdges, height : AtlasEdges]
    /\ tc_blk \in Block \ {"Air"}
    /\ \E k \in 1..Len(FACES), j \in 1..4 :
          /\ tc_face = FACES[k]
          /\ tc_orig = POSITIONS[FACES[k].positions[j] + 1]
    /\ tc_uv = << >>
    /\ GenIdle

\* tex_coord(tex_info, &blk, orig, face)
CallTexCoord ==
    /\ pc = "tex_call"
    /\ tc_uv' = tex_coord(tex_info, tc_blk, tc_orig, tc_face)
    /\ pc' = "tex_done"
    /\ UNCHANGED <<coordVars, meshVars, genVars, mapVars, viewVars, iterVars, tc_blk, tc_face, tc_orig>>

NextTex == CallTexCoord

SpecTex == InitTex /\ [][NextTex]_vars

\* The tile index of the call and the tile grid of its atlas.
TileOfCall == texture_id(tc_blk, tc_face.side)
TilesPerRow == tex_info.width \div 16
TilesPerCol == tex_info.height \div 16

\* The fraction q = << numerator, denominator >> lies strictly inside tile
\* number k of an edge of n pixels, exactly 1/256 of a tile from the nearer
\* of the tile's two edges: with lo = 16k/n and hi = 16(k+1)/n,
\* lo < q < hi and (q - lo = 16/(256 n) or hi - q = 16/(256 n)).
InsideTile(q, k, n) ==
    LET num == q[1]
        den == q[2]
    IN  /\ den > 0
        /\ 16 * k * den < num * n
        /\ num * n < 16 * (k + 1) * den
        /\ \/ 256 * (num * n - 16 * k * den) = 16 * den
           \/ 256 * (16 * (k + 1) * den - num * n) = 16 * den

\* C13: for atlas width W and height H that are multiples of 16 and a tile
\* index t < (W/16)*(H/16), tex_coord returns (u, v) strictly inside the
\* rectangle of tile t (column t mod (W/16), row t div (W/16)), each
\* coordinate exactly 1/256 of a tile inside the tile edge nearest to it.
C13_UvInsideTile ==
    (/\ pc = "tex_done"
     /\ tex_info.width % 16 = 0
     /\ tex_info.height % 16 = 0
     /\ TileOfCall < TilesPerRow * TilesPerCol) =>
        /\ Len(tc_uv) = 2
        /\ InsideTile(tc_uv[1], TileOfCall % TilesPerRow, tex_info.width)
        /\ InsideTile(tc_uv[2], TileOfCall \div TilesPerRow, tex_info.height)

C13_Witness ==
    /\ pc = "tex_done"
    /\ tex_info = [width |-> 5 * 16, height |-> 4 * 16]
    /\ tc_blk = "TestBlock"
    /\ TileOfCall = 16
    /\ tc_face.side = "Top"
    /\ tc_orig = POSITIONS[7]
    /\ InsideTile(tc_uv[1], 1, tex_info.width)
    /\ InsideTile(tc_uv[2], 3, tex_info.height)

(***************************************************************************)
(* SpecGen: the workers, the channel and the teardown of GenController     *)
(***************************************************************************)
\* The state GenController::launch returns in: the channel exists, every
\* worker has been spawned and stands before the first pass of its loops.
InitGen ==
    /\ pc = "gen"
    /\ arg = SectorCoords(0, 0, 0)
    /\ arg_idx = 0
    /\ arg_side = "Front"
    /\ idx = 0
    /\ out = SectorCoords(0, 0, 0)
    /\ nb = None
    /\ oob = FALSE
    /\ blocks = Unset
    /\ tex_info \in TexInfos
    /\ geometry = None
    /\ TexIdle
    /\ main_pc = "running"
    /\ rx_open = TRUE
    /\ handles = spawn_threads(N_WORKERS)
    /\ chan = << >>
    /\ w_pc = [w \in Workers |-> "loop"]
    /\ w_pos = [w \in Workers |-> Some(ScanFirst)]
    /\ w_msg = [w \in Workers |-> None]
    /\ received = << >>
    /\ w_failed = [w \in Workers |-> 0]
    /\ w_late = [w \in Workers |-> 0]
    /\ world_map = {}
    /\ ViewIdle
    /\ IterIdle

\* worker_thread, from the head of the innermost loop to the send:
\* superflat_sector, gen_terrain and the Message. A panic inside gen_terrain
\* ends the thread.
WorkerGenerate(w) ==
    /\ w_pc[w] = "loop"
    /\ LET message == Message(copy_tex_info(tex_info), w_pos[w].val)
       IN  IF message.pre_geometry = Panic
           THEN /\ w_pc' = [w_pc EXCEPT ![w] = "panicked"]
                /\ UNCHANGED w_msg
           ELSE /\ w_pc' = [w_pc EXCEPT ![w] = "send"]
                /\ w_msg' = [w_msg EXCEPT ![w] =
                                Some([world_pos |-> message.world_pos, from |-> w])]
    /\ w_late' = [w_late EXCEPT ![w] = IF rx_open THEN @ ELSE @ + 1]
    /\ UNCHANGED <<pc, coordVars, meshVars, texVars, mapVars, viewVars, iterVars, ctlVars, chan, received, w_pos, w_failed>>

\* tx.send(message) with the result ignored: the loops go on after an Err.
WorkerSend_IgnoresErr(w) ==
    /\ w_pc[w] = "send"
    /\ IF rx_open
       THEN /\ chan' = Append(chan, w_msg[w].val)
            /\ UNCHANGED w_failed
       ELSE /\ w_failed' = [w_failed EXCEPT ![w] = @ + 1]
            /\ UNCHANGED chan
    /\ w_pos' = [w_pos EXCEPT ![w] = ScanNext(w_pos[w].val)]
    /\ w_pc' = [w_pc EXCEPT ![w] =
                    IF IsSome(ScanNext(w_pos[w].val)) THEN "loop" ELSE "done"]
    /\ w_msg' = [w_msg EXCEPT ![w] = None]
    /\ UNCHANGED <<pc, coordVars, meshVars, texVars, mapVars, viewVars, iterVars, ctlVars, received, w_late>>

\* tx.send(message) whose Err arm tries the same send again.
WorkerSend_RetriesOnErr(w) ==
    /\ w_pc[w] = "send"
    /\ IF rx_open
       THEN /\ chan' = Append(chan, w_msg[w].val)
            /\ w_pos' = [w_pos EXCEPT ![w] = ScanNext(w_pos[w].val)]
            /\ w_pc' = [w_pc EXCEPT ![w] =
                            IF IsSome(ScanNext(w_pos[w].val)) THEN "loop" ELSE "done"]
            /\ w_msg' = [w_msg EXCEPT ![w] = None]
       ELSE UNCHANGED <<chan, w_pos, w_pc, w_msg>>
    /\ UNCHANGED <<pc, coordVars, meshVars, texVars, mapVars, viewVars, iterVars, ctlVars, received, w_late, w_failed>>

\* tx.send(message) that drops the message when others are still buffered.
WorkerSend_Lossy(w) ==
    /\ w_pc[w] = "send"
    /\ IF rx_open
       THEN /\ chan' = IF chan = << >> THEN Append(chan, w_msg[w].val) ELSE chan
            /\ w_pos' = [w_pos EXCEPT ![w] = ScanNext(w_pos[w].val)]
            /\ w_pc' = [w_pc EXCEPT ![w] =
                            IF IsSome(ScanNext(w_pos[w].val)) THEN "loop" ELSE "done"]
            /\ UNCHANGED w_failed
       ELSE /\ w_failed' = [w_failed EXCEPT ![w] = @ + 1]
            /\ w_pc' = [w_pc EXCEPT ![w] = "done"]
            /\ UNCHANGED <<chan, w_pos>>
    /\ w_msg' = [w_msg EXCEPT ![w] = None]
    /\ UNCHANGED <<pc, coordVars, meshVars, texVars, mapVars, viewVars, iterVars, ctlVars, received, w_late>>

\* match tx.send(message): Ok while the Receiver is alive, the message then
\* being queued behind the earlier ones and the loops going on (or ending
\* after the last position); Err once the Receiver is dropped, and return.
WorkerSend(w) ==
    /\ w_pc[w] = "send"
    /\ IF rx_open
       THEN /\ chan' = Append(chan, w_msg[w].val)
            /\ w_pos' = [w_pos EXCEPT ![w] = ScanNext(w_pos[w].val)]
            /\ w_pc' = [w_pc EXCEPT ![w] =
                            IF IsSome(ScanNext(w_pos[w].val)) THEN "loop" ELSE "done"]
            /\ UNCHANGED w_failed
       ELSE /\ w_failed' = [w_failed EXCEPT ![w] = @ + 1]
            /\ w_pc' = [w_pc EXCEPT ![w] = "done"]
            /\ UNCHANGED <<chan, w_pos>>
    /\ w_msg' = [w_msg EXCEPT ![w] = None]
    /\ UNCHANGED <<pc, coordVars, meshVars, texVars, mapVars, viewVars, iterVars, ctlVars, received, w_late>>

\* controller.receiver().try_recv() returning a message
Recv ==
    /\ main_pc = "running"
    /\ rx_open
    /\ chan # << >>
    /\ received' = Append(received, Head(chan))
    /\ chan' = Tail(chan)
    /\ UNCHANGED <<pc, coordVars, meshVars, texVars, mapVars, viewVars, iterVars, ctlVars, workerVars>>

\* The GenController is dropped: drop(&mut self) is entered.
BeginDrop ==
    /\ main_pc = "running"
    /\ main_pc' = "drop"
    /\ UNCHANGED <<pc, coordVars, meshVars, texVars, mapVars, viewVars, iterVars, rx_open, handles, workerVars, chan, received>>

\* mem::drop(self.rx.take()): the Receiver goes, and with it what is buffered.
DropTakeRx ==
    /\ main_pc = "drop"
    /\ rx_open' = FALSE
    /\ chan' = << >>
    /\ main_pc' = IF handles = << >> THEN "dropped" ELSE "joining"
    /\ UNCHANGED <<pc, coordVars, meshVars, texVars, mapVars, viewVars, iterVars, handles, workerVars, received>>

\* let _ = i.join(): the result of the join is thrown away.
DropJoin_IgnoresPanic ==
    /\ main_pc = "joining"
    /\ handles # << >>
    /\ w_pc[Head(handles)] \in {"done", "panicked"}
    /\ handles' = Tail(handles)
    /\ main_pc' = IF Tail(handles) = << >> THEN "dropped" ELSE "joining"
    /\ UNCHANGED <<pc, coordVars, meshVars, texVars, mapVars, viewVars, iterVars, rx_open, workerVars, chan, received>>

\* The join loop entered without waiting for the Receiver to be taken.
DropJoin_BeforeClose ==
    /\ main_pc \in {"drop", "joining"}
    /\ handles # << >>
    /\ w_pc[Head(handles)] \in {"done", "panicked"}
    /\ handles' = Tail(handles)
    /\ main_pc' = IF w_pc[Head(handles)] = "panicked" THEN "panicked"
                  ELSE IF Tail(handles) = << >> THEN "dropped"
                  ELSE "joining"
    /\ UNCHANGED <<pc, coordVars, meshVars, texVars, mapVars, viewVars, iterVars, rx_open, workerVars, chan, received>>

\* i.join().unwrap() for the next handle: returns once that worker has
\* finished, panics if the worker panicked; the loop and drop end after the
\* last handle.
DropJoin ==
    /\ main_pc = "joining"
    /\ handles # << >>
    /\ w_pc[Head(handles)] \in {"done", "panicked"}
    /\ handles' = Tail(handles)
    /\ main_pc' = IF w_pc[Head(handles)] = "panicked" THEN "panicked"
                  ELSE IF Tail(handles) = << >> THEN "dropped"
                  ELSE "joining"
    /\ UNCHANGED <<pc, coordVars, meshVars, texVars, mapVars, viewVars, iterVars, rx_open, workerVars, chan, received>>

WorkerStep(w) == WorkerGenerate(w) \/ WorkerSend(w)

NextGen ==
    \/ \E w \in Workers : WorkerGenerate(w)
    \/ \E w \in Workers : WorkerSend(w)
    \/ Recv
    \/ BeginDrop
    \/ DropTakeRx
    \/ DropJoin

SpecGen == InitGen /\ [][NextGen]_vars

\* Threads that can run are scheduled, and a join whose worker has finished
\* returns.
SpecGenFair ==
    /\ SpecGen
    /\ \A w \in Workers : WF_vars(WorkerStep(w))
    /\ WF_vars(DropTakeRx)
    /\ WF_vars(DropJoin)

\* How often the message of worker w for world position c occurs in a sequence.
Occurrences(seq, w, c) ==
    Cardinality({i \in 1..Len(seq) : seq[i].world_pos = c /\ seq[i].from = w})

\* Every worker has left worker_thread after its last send succeeded.
AllWorkersFinished == \A w \in Workers : w_pc[w] = "done" /\ w_failed[w] = 0

\* C14: launched with N workers over the M world positions of the scan, no
\* worker panicking and the consumer receiving until the workers are
\* finished and the channel is empty, the consumer has received exactly M
\* messages per worker: every assigned position exactly once, none twice,
\* none missing, and at no time is a message in flight or received twice.
C14_EveryCoordinateOnce ==
    /\ \A w \in Workers : \A c \in ScanCoords :
          Occurrences(received \o chan, w, c) <= 1
    /\ \A i \in 1..Len(received) : received[i].world_pos \in ScanCoords
    /\ (main_pc = "running" /\ AllWorkersFinished /\ chan = << >>) =>
          /\ Len(received) = N_WORKERS * Cardinality(ScanCoords)
          /\ \A w \in Workers : \A c \in ScanCoords :
                Occurrences(received, w, c) = 1

C14_Witness ==
    /\ main_pc = "running"
    /\ AllWorkersFinished
    /\ chan = << >>
    /\ Len(received) >= 9
    /\ \E i \in 1..Len(received) : received[i].world_pos = SectorIndex(1, -1, 1)

\* C15: dropping the GenController terminates from every reachable state:
\* wherever the workers stand in their scan, whatever is still buffered in
\* the channel and whether or not the consumer went on receiving, a drop
\* that was entered returns, and when it has returned every worker thread
\* has finished.
C15_DropTerminates ==
    /\ [](main_pc = "dropped" =>
            /\ handles = << >>
            /\ \A w \in Workers : w_pc[w] = "done")
    /\ (main_pc = "drop") ~> (main_pc = "dropped")

C15_Witness ==
    /\ main_pc = "dropped"
    /\ \E w \in Workers : w_failed[w] = 1 /\ IsSome(w_pos[w])
    /\ Len(received) = 2

\* C16: in the teardown of GenController the Receiver is closed strictly
\* before the first join begins (no handle leaves `handles`, and the join
\* loop is not entered, while the Receiver is alive), and every handle has
\* been joined when the teardown is complete.
C16_CloseBeforeJoin ==
    /\ [][handles' # handles => ~rx_open /\ ~rx_open']_vars
    /\ [](main_pc = "joining" => ~rx_open)
    /\ [](main_pc = "dropped" => ~rx_open /\ handles = << >>)
    /\ [](main_pc \in {"running", "drop"} => handles = spawn_threads(N_WORKERS))

C16_Witness ==
    /\ main_pc = "joining"
    /\ ~rx_open
    /\ handles = spawn_threads(N_WORKERS)
    /\ \E w \in Workers : w_pc[w] = "loop"

\* C17: a worker looks at the result of every send; at the first Err (the
\* Receiver is dropped) it returns without panicking, and from then on it
\* generates no sector and sends nothing. After the Receiver is closed a
\* worker therefore completes at most one more sector before it exits.
C17_StopsAtFirstFailedSend ==
    /\ [](\A w \in Workers :
            /\ w_failed[w] <= 1
            /\ w_late[w] <= 1
            /\ w_pc[w] # "panicked"
            /\ w_failed[w] = 1 => w_pc[w] = "done" /\ w_msg[w] = None)
    /\ [][\A w \in Workers :
            w_failed[w] = 1 =>
                /\ w_pc'[w] = w_pc[w]
                /\ w_pos'[w] = w_pos[w]
                /\ w_late'[w] = w_late[w]
                /\ w_failed'[w] = w_failed[w]]_vars
    /\ [](\A i \in 1..Len(chan) : rx_open)

C17_Witness ==
    /\ main_pc = "dropped"
    /\ \E w \in Workers :
          /\ w_failed[w] = 1
          /\ w_late[w] = 1
          /\ w_pc[w] = "done"
          /\ w_pos[w] = Some(SectorIndex(0, -1, 0))

\* a comes before b in the lexicographic order of (x, y, z).
LexLess(a, b) ==
    \/ a[1] < b[1]
    \/ a[1] = b[1] /\ a[2] < b[2]
    \/ a[1] = b[1] /\ a[2] = b[2] /\ a[3] < b[3]

\* The messages of worker w in a sequence, in the order of the sequence.
FromWorker(seq, w) ==
    LET IsFrom(m) == m.from = w
    IN  SelectSeq(seq, IsFrom)

\* C18: the messages of one worker are sent, and received by the consumer,
\* in the scan order of that worker (x outermost and ascending, then y, then
\* z ascending): of two messages of the same worker the one with the
\* lexicographically smaller (x, y, z) is sent first and received first.
C18_ScanOrderPerWorker ==
    \A w \in Workers :
        LET sent == FromWorker(received \o chan, w)
            got == FromWorker(received, w)
        IN  /\ \A i, j \in 1..Len(sent) :
                  i < j => LexLess(sent[i].world_pos, sent[j].world_pos)
            /\ \A i, j \in 1..Len(got) :
                  i < j => LexLess(got[i].world_pos, got[j].world_pos)
            /\ Len(sent) > 0 => sent[1].world_pos = ScanFirst

C18_Witness ==
    \E i \in 1..Len(received) :
        /\ i + 1 <= Len(received)
        /\ received[i].world_pos = SectorIndex(-ScanReach, -1, ScanReach)
        /\ received[i + 1].world_pos = SectorIndex(-ScanReach + 1, -1, -ScanReach)
        /\ received[i].from = received[i + 1].from

(***************************************************************************)
(* Sector Manager and World Map. Their code is not in the source tree;     *)
(* the definitions follow sections 3 and 4.4 of the specification.         *)
(***************************************************************************)
\* The Sector made from a message: a geometry handle exactly when the message
\* carries pre-geometry. built_from records the message (history).
SectorOf(info, msg) ==
    [geometry |-> IF IsSome(Message(info, msg.world_pos).pre_geometry)
                  THEN Some("handle")
                  ELSE None,
     built_from |-> msg]

\* Insertion that leaves an older entry of the key in place.
MapInsert_KeepsOld(map, key, sector) ==
    map \cup {[key |-> key, sector |-> sector]}

\* Insert or replace the entry of a key in the World Map.
MapInsert(map, key, sector) ==
    {e \in map : e.key # key} \cup {[key |-> key, sector |-> sector]}

\* The World Map after the messages of a sequence were finalized in order.
RECURSIVE InsertAll(_, _, _)
InsertAll(map, info, msgs) ==
    IF msgs = << >>
    THEN map
    ELSE InsertAll(MapInsert(map, Head(msgs).world_pos, SectorOf(info, Head(msgs))),
                   info, Tail(msgs))

\* finalize_sectors() that waits for a message when none is buffered.
FinalizeSectors_Blocking ==
    /\ main_pc = "running"
    /\ rx_open
    /\ chan # << >>
    /\ world_map' = InsertAll(world_map, copy_tex_info(tex_info), chan)
    /\ received' = received \o chan
    /\ chan' = << >>
    /\ UNCHANGED <<pc, coordVars, meshVars, texVars, viewVars, iterVars, ctlVars, workerVars>>

\* finalize_sectors that takes every buffered message and inserts the
\* Sector of the first one only.
FinalizeSectors_InsertsFirstOnly ==
    /\ main_pc = "running"
    /\ rx_open
    /\ world_map' = InsertAll(world_map, copy_tex_info(tex_info),
                              IF chan = << >> THEN chan ELSE <<Head(chan)>>)
    /\ received' = received \o chan
    /\ chan' = << >>
    /\ UNCHANGED <<pc, coordVars, meshVars, texVars, viewVars, iterVars, ctlVars, workerVars>>

\* finalize_sectors(): every message buffered in the channel is taken, in
\* order, and its Sector inserted; the call returns when none is left.
FinalizeSectors ==
    /\ main_pc = "running"
    /\ rx_open
    /\ world_map' = InsertAll(world_map, copy_tex_info(tex_info), chan)
    /\ received' = received \o chan
    /\ chan' = << >>
    /\ UNCHANGED <<pc, coordVars, meshVars, texVars, viewVars, iterVars, ctlVars, workerVars>>

(***************************************************************************)
(* SpecManager: the workers feed the channel, finalize_sectors drains it   *)
(***************************************************************************)
NextManager ==
    \/ \E w \in Workers : WorkerGenerate(w)
    \/ \E w \in Workers : WorkerSend(w)
    \/ FinalizeSectors
    \/ BeginDrop
    \/ DropTakeRx
    \/ DropJoin

SpecManager == InitGen /\ [][NextManager]_vars

\* C19: finalize_sectors never blocks: it can be called and returns in every
\* state in which the controller lives, also with an empty channel and with
\* workers still running; a call processes exactly the messages buffered at
\* that time, does not wait for the workers, and when it returns every one
\* of those messages has been inserted into the World Map.
C19_FinalizeNeverBlocks ==
    /\ [](main_pc = "running" => ENABLED FinalizeSectors)
    /\ [][FinalizeSectors =>
            /\ received' = received \o chan
            /\ chan' = << >>
            /\ UNCHANGED workerVars
            /\ \A i \in 1..Len(chan) :
                  \E e \in world_map' :
                      e.key = chan[i].world_pos /\ e.sector.built_from = chan[i]]_vars

C19_Witness ==
    /\ main_pc = "running"
    /\ chan = << >>
    /\ Len(received) = 3
    /\ Cardinality(world_map) = 3
    /\ \E w \in Workers : w_pc[w] = "send"

(***************************************************************************)
(* SpecMap: any sequence of messages reaches finalize_sectors              *)
(***************************************************************************)
\* The most messages that enter the channel.
MaxMessages == 4

\* The world positions of the messages: the first three of the scan, and
\* the position above the first, whose sector is all Air.
ArrivalCoords ==
    {ScanFirst, ScanNext(ScanFirst).val, ScanNext(ScanNext(ScanFirst).val).val,
     SectorIndex(ScanFirst[1], ScanFirst[2] + 1, ScanFirst[3])}

\* A send of some worker succeeds: a Message for any of the positions is
\* queued. seq numbers the messages in the order of their sends (history).
Arrive ==
    /\ main_pc = "running"
    /\ rx_open
    /\ Len(received) + Len(chan) < MaxMessages
    /\ \E c \in ArrivalCoords, w \in Workers :
          chan' = Append(chan, [world_pos |-> c, from |-> w,
                                seq |-> Len(received) + Len(chan) + 1])
    /\ UNCHANGED <<pc, coordVars, meshVars, texVars, mapVars, viewVars, iterVars, ctlVars, workerVars, received>>

NextMap ==
    \/ Arrive
    \/ FinalizeSectors

SpecMap == InitGen /\ [][NextMap]_vars

\* The last message received for a world position.
LastReceived(k) ==
    LET at == {i \in 1..Len(received) : received[i].world_pos = k}
    IN  received[CHOOSE i \in at : \A j \in at : j <= i]

\* C20: after any sequence of received messages and finalize_sectors calls
\* the World Map holds at most one Sector per world coordinate, namely for
\* every coordinate a message was finalized for, the Sector built from the
\* most recently finalized message of that coordinate; a call leaves the
\* entries of the coordinates it has no message for as they were.
C20_OneSectorPerCoordinate ==
    /\ [](\A e1, e2 \in world_map : e1.key = e2.key => e1 = e2)
    /\ []({e.key : e \in world_map} = {received[i].world_pos : i \in 1..Len(received)})
    /\ [](\A e \in world_map :
            e.sector = SectorOf(copy_tex_info(tex_info), LastReceived(e.key)))
    /\ [][\A e \in world_map :
            (\A i \in 1..Len(chan) : chan[i].world_pos # e.key) => e \in world_map']_vars

C20_Witness ==
    /\ Len(received) = 3
    /\ received[1].world_pos = received[3].world_pos
    /\ received[2].world_pos # received[1].world_pos
    /\ Cardinality(world_map) = 2
    /\ \E e \in world_map : e.key = received[1].world_pos /\ e.sector.built_from.seq = 3
    /\ \E e \in world_map : e.key = received[2].world_pos /\ e.sector.built_from.seq = 2

\* The sector data of the message an entry of the World Map was built from.
DataOf(e) == superflat_sector(e.sector.built_from.world_pos)

\* C21: a Sector in the World Map has a geometry handle if and only if the
\* message it was built from carried Some(PreGeometry); a sector without a
\* visible face (all Air) is in the map with its geometry absent, which
\* differs from a coordinate without entry, and an entry changes only when
\* a later message for its coordinate is finalized.
C21_GeometryIffPreGeometry ==
    /\ [](\A e \in world_map :
            /\ IsSome(e.sector.geometry)
                 <=> IsSome(WorkerGeometry(copy_tex_info(tex_info), DataOf(e)))
            /\ DataOf(e) = SectorDataNew => IsNone(e.sector.geometry)
            /\ DataOf(e) = SuperflatGround => IsSome(e.sector.geometry))
    /\ [](\A i \in 1..Len(received) :
            \E e \in world_map : e.key = received[i].world_pos)
    /\ [][\A e \in world_map :
            e \in world_map' \/ \E i \in 1..Len(chan) : chan[i].world_pos = e.key]_vars
    /\ [][\A e \in world_map : \A f \in world_map' :
            (e.key = f.key /\ IsNone(e.sector.geometry)) => IsNone(f.sector.geometry)]_vars

C21_Witness ==
    /\ \E e \in world_map :
          /\ e.key[2] = 0
          /\ IsNone(e.sector.geometry)
          /\ e.sector.built_from.seq = 1
    /\ \E e \in world_map :
          /\ e.key = ScanFirst
          /\ IsSome(e.sector.geometry)
    /\ Len(received) = 3
    /\ ScanNext(ScanFirst).val \notin {e.key : e \in world_map}

(***************************************************************************)
(* SpecGenPanic: SpecGen with workers that may panic                       *)
(***************************************************************************)
\* A panic unwinds out of worker_thread: the thread ends, and the message
\* it may hold is dropped with its stack.
WorkerPanic(w) ==
    /\ w_pc[w] \in {"loop", "send"}
    /\ w_pc' = [w_pc EXCEPT ![w] = "panicked"]
    /\ w_msg' = [w_msg EXCEPT ![w] = None]
    /\ UNCHANGED <<pc, coordVars, meshVars, texVars, mapVars, viewVars, iterVars, ctlVars, chan, received,
                   w_pos, w_failed, w_late>>

NextGenPanic ==
    \/ NextGen
    \/ \E w \in Workers : WorkerPanic(w)

SpecGenPanic == InitGen /\ [][NextGenPanic]_vars

\* C22: the panic of a worker thread comes out at the join of the teardown
\* of GenController: the join of a panicked worker makes drop panic, and drop
\* returns normally only if every worker returned normally.
C22_PanicSurfacesAtJoin ==
    /\ [](main_pc = "dropped" => \A w \in Workers : w_pc[w] = "done")
    /\ [](main_pc = "panicked" => \E w \in Workers : w_pc[w] = "panicked")
    /\ [][(main_pc = "joining" /\ handles' # handles
             /\ w_pc[Head(handles)] = "panicked") => main_pc' = "panicked"]_vars
    /\ []((main_pc = "joining" /\ w_pc[Head(handles)] = "panicked") => ENABLED DropJoin)

C22_Witness ==
    /\ main_pc = "panicked"
    /\ \E w \in Workers : w_pc[w] = "panicked" /\ w_failed[w] = 0
    /\ ~rx_open
    /\ Len(received) = 1

\* The (block, side) arguments of the texture_id calls gen_terrain makes, one
\* through each tex_coord call of a drawn face.
TextureIdCalls(voxels) ==
    LET drawn == DrawnFaces(voxels)
    IN  {<<voxels[drawn[k][1]], drawn[k][2].side>> : k \in 1..Len(drawn)}

\* C23: whatever the sector holds, gen_terrain never asks texture_id for the
\* tile of an Air block: the unreachable!() arm of texture_id is not run and
\* gen_terrain does not panic.
C23_NoTextureIdForAir ==
    /\ pc = "meshed" =>
          \A call \in TextureIdCalls(blocks) :
              /\ call[1] # "Air"
              /\ texture_id(call[1], call[2]) # Unreachable
    /\ pc = "meshed" => geometry # Panic

C23_Witness ==
    /\ pc = "meshed"
    /\ geometry # Panic
    /\ \E c \in ProbeCoords : Interior(c) /\ block(blocks, c) = "Air"
    /\ TextureIdCalls(blocks) = {"Grass"} \X Side


(***************************************************************************)
(* SpecSpin: a camera and a player are constructed and spun                *)
(***************************************************************************)
\* The values a caller can pass in one component of a delta: finite steps
\* of up to three quarters of PI either way, the infinities and NaN.
DeltaValues == {Fin(v) : v \in -3..3} \cup {PosInf, NegInf, NaN}

\* with_pos_rot(pos, rot): the pitches a caller constructs with, in and out
\* of the clamped range; at_origin() and with_pos() give AtOriginTilt.
StartTilts == {AtOriginTilt} \cup {<<Fin(v), Fin(0)>> : v \in {-3, 3}}

InitSpin ==
    /\ pc = "view"
    /\ arg = SectorCoords(0, 0, 0)
    /\ arg_idx = 0
    /\ arg_side = "Front"
    /\ idx = 0
    /\ out = SectorCoords(0, 0, 0)
    /\ nb = None
    /\ oob = FALSE
    /\ blocks = Unset
    /\ tex_info = Unset
    /\ geometry = None
    /\ TexIdle
    /\ main_pc = "none"
    /\ rx_open = FALSE
    /\ handles = << >>
    /\ chan = << >>
    /\ w_pc = [w \in Workers |-> "done"]
    /\ w_pos = [w \in Workers |-> None]
    /\ w_msg = [w \in Workers |-> None]
    /\ received = << >>
    /\ w_failed = [w \in Workers |-> 0]
    /\ w_late = [w \in Workers |-> 0]
    /\ world_map = {}
    /\ cam_tilt \in StartTilts
    /\ plr_tilt \in StartTilts
    /\ spun = {}
    /\ nan_fed = {}
    /\ IterIdle

\* Camera::spin(delta)
CameraSpin ==
    /\ pc = "view"
    /\ \E dx \in DeltaValues, dy \in DeltaValues :
          /\ cam_tilt' = spin(cam_tilt, <<dx, dy>>)
          /\ nan_fed' = IF dx = NaN THEN nan_fed \cup {"camera"} ELSE nan_fed
    /\ spun' = spun \cup {"camera"}
    /\ UNCHANGED <<pc, coordVars, meshVars, texVars, genVars, mapVars, iterVars, plr_tilt>>

\* Player::spin(delta)
PlayerSpin ==
    /\ pc = "view"
    /\ \E dx \in DeltaValues, dy \in DeltaValues :
          /\ plr_tilt' = spin(plr_tilt, <<dx, dy>>)
          /\ nan_fed' = IF dx = NaN THEN nan_fed \cup {"player"} ELSE nan_fed
    /\ spun' = spun \cup {"player"}
    /\ UNCHANGED <<pc, coordVars, meshVars, texVars, genVars, mapVars, iterVars, cam_tilt>>

NextSpin == CameraSpin \/ PlayerSpin

SpecSpin == InitSpin /\ [][NextSpin]_vars

\* The pitch is a number in [-FRAC_PI_2, FRAC_PI_2].
PitchInRange(tilt) ==
    /\ tilt[1].k = "fin"
    /\ FRank(FNeg(FRAC_PI_2)) <= tilt[1].v
    /\ tilt[1].v <= FRank(FRAC_PI_2)

TiltOf(e) == IF e = "camera" THEN cam_tilt ELSE plr_tilt

\* C24: after any sequence of Camera::spin and Player::spin calls with
\* arbitrary deltas, the pitch tilt.x lies in [-pi/2, +pi/2].
C24_PitchClamped ==
    \A e \in spun : PitchInRange(TiltOf(e))

\* What spin does guarantee: the pitch of a camera or player that was spun
\* and never given a NaN pitch delta lies in [-pi/2, +pi/2], whatever pitch
\* it was constructed with and also for infinite deltas.
PitchClampedUnlessNaN ==
    \A e \in spun \ nan_fed : PitchInRange(TiltOf(e))

\* A NaN pitch, once there, survives every later spin.
NaNPitchStays ==
    [][\A e \in {"camera", "player"} :
          TiltOf(e)[1] = NaN =>
             IF e = "camera" THEN cam_tilt'[1] = NaN ELSE plr_tilt'[1] = NaN]_vars


(***************************************************************************)
(* Winding of the faces                                                    *)
(***************************************************************************)
Minus3(a, b) == << a[1] - b[1], a[2] - b[2], a[3] - b[3] >>

Cross(a, b) ==
    << a[2] * b[3] - a[3] * b[2],
       a[3] * b[1] - a[1] * b[3],
       a[1] * b[2] - a[2] * b[1] >>

\* Both triangles of the quad q (p0 p1 p2 and p0 p2 p3) have the outward
\* unit vector of the side as (p1 - p0) x (p2 - p0), resp. (p2 - p0) x (p3 - p0).
WoundOutward(q, side) ==
    /\ Cross(Minus3(q[2], q[1]), Minus3(q[3], q[1])) = SideUnit(side)
    /\ Cross(Minus3(q[3], q[1]), Minus3(q[4], q[1])) = SideUnit(side)

\* C25: for each of the six FACES entries, with the corners p0..p3 taken
\* from POSITIONS in the listed order, the normals (p1 - p0) x (p2 - p0) and
\* (p2 - p0) x (p3 - p0) both point outward for the entry's side (+z Front,
\* -z Back, +x RightSide, -x LeftSide, +y Top, -y Bottom); so do the two
\* triangles of every quad that gen_terrain emits from the table.
C25_FacesWoundOutward ==
    /\ \A k \in 1..Len(FACES) :
          WoundOutward([j \in 1..4 |-> POSITIONS[FACES[k].positions[j] + 1]],
                       FACES[k].side)
    /\ (pc = "meshed" /\ IsSome(geometry)) =>
          LET drawn == DrawnFaces(blocks)
          IN  /\ Len(drawn) = NumFaces(geometry)
              /\ \A k \in 1..Len(drawn) :
                    /\ WoundOutward(QuadAt(geometry, k), drawn[k][2].side)
                    /\ SubSeq(geometry.val.indices, 6 * (k - 1) + 1, 6 * k)
                         = << 4 * (k - 1), 4 * (k - 1) + 1, 4 * (k - 1) + 2,
                              4 * (k - 1), 4 * (k - 1) + 2, 4 * (k - 1) + 3 >>

\* A mesh in which all six sides of the table were emitted.
C25_Witness ==
    /\ pc = "meshed"
    /\ IsSome(geometry)
    /\ \A s \in Side :
          \E k \in 1..NumFaces(geometry) :
             DrawnFaces(blocks)[k][2].side = s


(***************************************************************************)
(* SpecIter: a SectorData is iterated with iter() or iter_mut()            *)
(***************************************************************************)
\* The sectors iterated: the sector of SectorData::new() and the ground
\* sector of the generator.
IterSectors == {SectorDataNew, SuperflatGround}

\* The entries a consumer of iter_mut() assigns through, and what it assigns.
IterWriteCoords == {SectorCoords(1, 0, 0), SectorCoords(SECTOR_MAX, SECTOR_MAX, SECTOR_MAX)}
IterWriteBlocks == {"Air", "Stone"}

\* data.iter() / data.iter_mut() has been called.
InitIter ==
    /\ pc = "iter"
    /\ arg = SectorCoords(0, 0, 0)
    /\ arg_idx = 0
    /\ arg_side = "Front"
    /\ idx = 0
    /\ out = SectorCoords(0, 0, 0)
    /\ nb = None
    /\ oob = FALSE
    /\ blocks \in IterSectors
    /\ tex_info = Unset
    /\ geometry = None
    /\ TexIdle
    /\ main_pc = "none"
    /\ rx_open = FALSE
    /\ handles = << >>
    /\ chan = << >>
    /\ w_pc = [w \in Workers |-> "done"]
    /\ w_pos = [w \in Workers |-> None]
    /\ w_msg = [w \in Workers |-> None]
    /\ received = << >>
    /\ w_failed = [w \in Workers |-> 0]
    /\ w_late = [w \in Workers |-> 0]
    /\ world_map = {}
    /\ ViewIdle
    /\ it_pc = "iterating"
    /\ it_kind \in {"iter", "iter_mut"}
    /\ it_inner = into_iter.inner
    /\ it_current = into_iter.current
    /\ it_items = << >>

\* SectorIter::next / SectorIterMut::next (the two bodies are the same):
\* the iterator after the call and the Option returned.
IterNext(it) ==
    IF it.inner < SECTOR_LEN
    THEN [it |-> [inner |-> it.inner + 1, current |-> it.current + 1],
          item |-> Some([coords |-> coords(it.current), slot |-> it.inner])]
    ELSE [it |-> it, item |-> None]

\* n calls of next(): the iterator after them and what they returned.
RECURSIVE IterCalls(_, _)
IterCalls(it, n) ==
    IF n = 0
    THEN [it |-> it, items |-> << >>]
    ELSE LET r == IterNext(it)
             rest == IterCalls(r.it, n - 1)
         IN  [it |-> rest.it, items |-> <<r.item>> \o rest.items]

\* The consumer calls next() SECTOR_DIM times.
IterRow ==
    /\ pc = "iter"
    /\ it_pc = "iterating"
    /\ LET r == IterCalls([inner |-> it_inner, current |-> it_current], SECTOR_DIM)
       IN  /\ it_inner' = r.it.inner
           /\ it_current' = r.it.current
           /\ it_items' = r.items
           /\ it_pc' = IF \E j \in 1..Len(r.items) : IsNone(r.items[j])
                       THEN "exhausted" ELSE "iterating"
    /\ UNCHANGED <<pc, coordVars, meshVars, texVars, genVars, mapVars, viewVars, it_kind>>

\* *item.1 = blk: the consumer of iter_mut() assigns through the reference
\* of an entry it was handed.
IterMutWrite ==
    /\ pc = "iter"
    /\ it_kind = "iter_mut"
    /\ \E j \in 1..Len(it_items), blk \in IterWriteBlocks :
          /\ IsSome(it_items[j])
          /\ it_items[j].val.coords \in IterWriteCoords
          /\ blocks[it_items[j].val.slot] # blk
          /\ blocks' = [blocks EXCEPT ![it_items[j].val.slot] = blk]
    /\ UNCHANGED <<pc, coordVars, tex_info, geometry, texVars, genVars, mapVars, viewVars, iterVars>>

NextIter == IterRow \/ IterMutWrite

SpecIter == InitIter /\ [][NextIter]_vars

\* The entries among the last results of next().
Yielded == {j \in 1..Len(it_items) : IsSome(it_items[j])}

\* C26: iterating a SectorData (iter and iter_mut alike) yields exactly
\* DIM^3 entries, in increasing linear-index order, each coordinate of the
\* cube once, and the block yielded with a coordinate c is block(c).
C26_IterYieldsEverySlotInOrder ==
    pc = "iter" =>
        /\ it_current = it_inner
        /\ it_current <= SECTOR_DIM * SECTOR_DIM * SECTOR_DIM
        \* the n-th entry yielded is the one of linear index n - 1
        /\ \A j \in Yielded :
              /\ \A i \in 1..j : i \in Yielded
              /\ it_items[j].val.coords \in AllCoords
              /\ index(it_items[j].val.coords) = it_current - Cardinality(Yielded) + j - 1
              /\ it_items[j].val.slot = index(it_items[j].val.coords)
              /\ blocks[it_items[j].val.slot] = block(blocks, it_items[j].val.coords)
        \* None is returned after exactly DIM^3 entries, and not before
        /\ (\E j \in 1..Len(it_items) : IsNone(it_items[j]))
              <=> it_pc = "exhausted"
        /\ it_pc = "exhausted" => it_current = SECTOR_DIM * SECTOR_DIM * SECTOR_DIM

\* The iterator of iter_mut() was run to its end, and the consumer assigned
\* through one of the entries on the way.
C26_Witness ==
    /\ pc = "iter"
    /\ it_kind = "iter_mut"
    /\ it_pc = "exhausted"
    /\ blocks \notin IterSectors


\* C27: writing a block b through block_mut(c) for an in-range coordinate c
\* makes block(c) return b and leaves block(c') unchanged for every other
\* in-range coordinate c'; distinct coordinates never share an array slot.
C27_BlockMutWritesOneSlot ==
    [][BlockMut =>
          \E c \in ProbeCoords, b \in ProbeBlocks :
             /\ block(blocks, c) # b
             /\ block(blocks', c) = b
             /\ \A other \in AllCoords \ {c} :
                   /\ block(blocks', other) = block(blocks, other)
                   /\ index(other) # index(c)]_vars

\* Two different blocks were written through block_mut, one after the other.
C27_Witness ==
    /\ pc = "data"
    /\ \E c \in ProbeCoords, d \in ProbeCoords :
          /\ block(blocks, c) = "Stone"
          /\ block(blocks, d) = "Grass"


\* The voxels whose faces gen_terrain goes through.
MeshedVoxels(voxels) == {i \in 0..(SECTOR_LEN - 1) : IsMeshed(voxels, i)}

\* C28: in gen_terrain the neighbor lookup returns Some for every (voxel,
\* side) pair that reaches the occlusion test: the voxels of the outer shell
\* are skipped first, so all six neighbours of a meshed voxel are inside the
\* sector, the "no neighbor, always emit" case never occurs, and every face
\* emitted has a transparent neighbour block behind it.
C28_NeighborAlwaysSome ==
    pc = "meshed" =>
        /\ \A i \in MeshedVoxels(blocks) :
              /\ ~IsPadding(IterCoords[i])
              /\ \A k \in 1..Len(FACES) :
                    /\ IsSome(neighbor(IterCoords[i], FACES[k].side))
                    /\ neighbor(IterCoords[i], FACES[k].side).val \in AllCoords
        /\ LET drawn == DrawnFaces(blocks)
           IN  \A k \in 1..Len(drawn) :
                  LET adj == neighbor(IterCoords[drawn[k][1]], drawn[k][2].side)
                  IN  /\ IsSome(adj)
                      /\ is_transparent(block(blocks, adj.val))

\* A meshed sector with a solid voxel next to the shell (its neighbour on
\* one side is a padding voxel) and a solid voxel in the padding itself.
C28_Witness ==
    /\ pc = "meshed"
    /\ IsSome(geometry)
    /\ \E i \in MeshedVoxels(blocks) :
          \E k \in 1..Len(FACES) :
             IsPadding(neighbor(IterCoords[i], FACES[k].side).val)
    /\ \E c \in ProbeCoords : IsPadding(c) /\ block(blocks, c) # "Air"


(***************************************************************************)
(* FACES against SectorCoords::neighbor                                    *)
(***************************************************************************)
\* The step neighbor takes from the voxel c on a side (c not in the shell).
NeighborStep(c, side) == Minus3(neighbor(c, side).val, c)

\* The axis (1 = x, 2 = y, 3 = z) along which neighbor steps on a side.
NormalAxis(c, side) == CHOOSE a \in 1..3 : NeighborStep(c, side)[a] # 0

\* The coordinate, along the normal axis, of the plane of the unit cube at
\* the origin that faces the neighbour: 1 for a step up, 0 for a step down.
FacePlane(c, side) ==
    IF NeighborStep(c, side)[NormalAxis(c, side)] = 1 THEN 1 ELSE 0

\* A voxel with all six neighbours inside the sector.
InnerVoxel == SectorCoords(SECTOR_MIN + 1, SECTOR_MIN + 1, SECTOR_MIN + 1)

\* C30: the FACES table is consistent with neighbor: the four corners of the
\* entry of a side lie on the plane of the unit cube on the side where
\* neighbor(side) steps (z = 1 Front, z = 0 Back, x = 1 RightSide, x = 0
\* LeftSide, y = 1 Top, y = 0 Bottom), the four corners are pairwise
\* distinct, and u_idx and v_idx are the two distinct axes other than the
\* normal axis; the quads gen_terrain emits lie between the voxel and the
\* neighbour of that side.
C30_FacesMatchNeighbor ==
    /\ \A k \in 1..Len(FACES) :
          LET f == FACES[k]
              a == NormalAxis(InnerVoxel, f.side)
          IN  /\ Cardinality({b \in 1..3 : NeighborStep(InnerVoxel, f.side)[b] # 0}) = 1
              /\ \A j \in 1..4 :
                    POSITIONS[f.positions[j] + 1][a] = FacePlane(InnerVoxel, f.side)
              /\ Cardinality({f.positions[j] : j \in 1..4}) = 4
              /\ Cardinality({POSITIONS[f.positions[j] + 1] : j \in 1..4}) = 4
              /\ f.u_idx # f.v_idx
              /\ {f.u_idx + 1, f.v_idx + 1} = (1..3) \ {a}
    /\ \A k, l \in 1..Len(FACES) : k # l => FACES[k].side # FACES[l].side
    /\ {FACES[k].side : k \in 1..Len(FACES)} = Side
    /\ (pc = "meshed" /\ IsSome(geometry)) =>
          LET drawn == DrawnFaces(blocks)
          IN  \A k \in 1..Len(drawn) :
                 LET v == IterCoords[drawn[k][1]]
                     s == drawn[k][2].side
                     a == NormalAxis(v, s)
                 IN  \A j \in 1..4 :
                        QuadAt(geometry, k)[j][a] = v[a] + FacePlane(v, s)

\* A mesh that holds a face on each of the six sides of one voxel.
C30_Witness ==
    /\ pc = "meshed"
    /\ IsSome(geometry)
    /\ \E v \in ProbeCoords :
          \A s \in Side : HasFace(geometry, v, s)


(***************************************************************************)
(* SpecManagerFair: worker threads run, finalize_sectors keeps being called *)
(***************************************************************************)
\* A worker thread that can take a step is scheduled, and the owner of the
\* Sector Manager calls finalize_sectors again and again while it lives.
SpecManagerFair ==
    /\ SpecManager
    /\ \A w \in Workers : WF_vars(WorkerStep(w))
    /\ WF_vars(FinalizeSectors)

\* The world positions that have an entry in the World Map.
LoadedKeys == {e.key : e \in world_map}

\* C29: if the controller is kept alive, no worker panics and
\* finalize_sectors keeps being invoked, then every scanned coordinate
\* (x and z over the scan range, y = -1) eventually has an entry in the World
\* Map, and from some point on the channel stays empty and the map no longer
\* changes.
C29_EveryCoordinateEventuallyLoaded ==
    /\ [](main_pc = "running") =>
          /\ \A c \in ScanCoords : <>(SectorIndex(c[1], c[2], c[3]) \in LoadedKeys)
          /\ <>[](/\ chan = << >>
                  /\ AllWorkersFinished
                  /\ LoadedKeys = {SectorIndex(c[1], c[2], c[3]) : c \in ScanCoords}
                  /\ Cardinality(world_map) = Cardinality(ScanCoords))
    /\ [][(chan = << >> /\ AllWorkersFinished) => world_map' = world_map]_vars

\* The controller lives, the workers are through, the channel is drained and
\* every scanned coordinate is in the World Map.
C29_Witness ==
    /\ main_pc = "running"
    /\ AllWorkersFinished
    /\ chan = << >>
    /\ Len(received) = Cardinality(ScanCoords)
    /\ LoadedKeys = {SectorIndex(c[1], c[2], c[3]) : c \in ScanCoords}

====
